---- MODULE Spec2Model ----
(***************************************************************************)
(* Strategy dispatch of the forecasting API: the StrategyRegistry class,   *)
(* the three strategy classes with their lazy load, the DataService cache  *)
(* the price strategies load through, and the request path of the two      *)
(* prediction endpoints.                                                   *)
(*                                                                         *)
(* Every operation of the code is an operator from the state of the        *)
(* program's objects (a "world" record) to the state after it, together    *)
(* with what it returned or raised; an action applies one operator.        *)
(***************************************************************************)
EXTENDS Integers, Sequences, FiniteSets, TLC

\* ------------------------------------------------------------------ bounds
\* executions of one strategy's load body in one behaviour
MaxLoadRuns == 2
\* fold files the tree-ensemble load iterates over (config.py sets 10)
n_folds == 2
\* threads that call into the strategies at the same time
NThreads == 2
\* the log-space outputs of a booster are 0 .. MaxOutput
MaxOutput == 3
\* store ids, SKU ids and time-feature values are 1 .. MaxId
MaxId == 2
\* prices are -1 .. MaxPrice
MaxPrice == 3
\* dates are the days 1 .. MaxDate
MaxDate == 3
\* a table has at most MaxRows rows
MaxRows == 3
\* the stores the one-hot encoding has a column for (range(1, 46) in the
\* code) are 1 .. n_stores
n_stores == 3
\* a linear model has at most MaxExtra more parameters than there are default,
\* store and type columns
MaxExtra == 3

\* --------------------------------------------------------------- constants
None == "None"

\* the two module-level StrategyRegistry instances
Registries == {"demand_registry", "price_registry"}

\* one instance of each strategy class
Strategies == {"LightGBMStrategy", "LinearStrategy", "DNNStrategy"}

\* strategy names used as registry keys and in requests
Names == {"lightgbm", "linear", "dnn"}

Folds == 0 .. (n_folds - 1)

Threads == 1 .. NThreads

\* the two prediction endpoints
Domains == {"demand", "price"}

\* the strategy field of a request: a registered or unregistered name, or empty
RequestNames == Names \cup {"", "invalid_strategy"}

VARIABLES
    strategies,     \* StrategyRegistry._strategies, per registry: a dict as the
                    \* sequence of its <<key, value>> items in insertion order
    default_name,   \* StrategyRegistry._default_name, per registry
    lgbm,           \* the LightGBMStrategy object: _loaded, models, config_dict
    linear,         \* the LinearStrategy object: _loaded, model, feature_columns
    dnn,            \* the DNNStrategy object
    data,           \* the DataService singleton: _train_df, _stores_df, _features_df
    prep,           \* the PreprocessingService singleton: _demand_config,
                    \* _demand_encoders
    fs,             \* the files and runtime the loads read (the environment)
    load_runs,      \* per strategy: how often the body of load() was executed
    first_registered,   \* history, per registry: the names in the order of
                        \* their first register call
    registered_as,  \* history, per registry and name: the strategy of the
                    \* latest register call with that name, None without one
    call,           \* the last completed call: operation, arguments, outcome
    request,        \* the last request an endpoint has served
    response,       \* its response, with the steps that were taken for it
    pc,             \* per thread: where it is in predict()
    target,         \* per thread: the strategy it calls predict() on
    tables,         \* the rows of train.csv, stores.csv and features.csv
    calc            \* the last call of a function of the encoders, the
                    \* DataService lookups or the scoring: arguments and result

vars == <<strategies, default_name, lgbm, linear, dnn, data, prep, fs, load_runs,
          first_registered, registered_as, call, request, response, pc, target,
          tables, calc>>

\* ------------------------------------------------------------ python dicts
\* A dict keeps its items in insertion order; assigning to a key that is
\* present replaces the value in place.
Keys(d) == [i \in 1 .. Len(d) |-> d[i][1]]

HasKey(d, k) == \E i \in 1 .. Len(d) : d[i][1] = k

Lookup(d, k) == d[CHOOSE i \in 1 .. Len(d) : d[i][1] = k][2]

Values(d) == [i \in 1 .. Len(d) |-> d[i][2]]

\* assignment that moves a key that is present to the end
SetItemMoveToEnd(d, k, v) ==
    Append(SelectSeq(d, LAMBDA it : it[1] # k), <<k, v>>)

\* assignment that keeps the value of a key that is present
SetItemKeepFirst(d, k, v) ==
    IF HasKey(d, k) THEN d ELSE Append(d, <<k, v>>)

SetItem(d, k, v) ==
    IF HasKey(d, k)
    THEN [i \in 1 .. Len(d) |-> IF d[i][1] = k THEN <<k, v>> ELSE d[i]]
    ELSE Append(d, <<k, v>>)

\* ------------------------------------------------------------- exceptions
NoExc == [type |-> None, what |-> "", available |-> <<>>]

Exc(type, what) == [type |-> type, what |-> what, available |-> <<>>]

\* ValueError("Strategy '<name>' not found. Available: <names>")
NotFound(names) == [type |-> "ValueError", what |-> "NotFound", available |-> names]

\* ValueError("No default strategy set and no strategy name provided")
NotConfigured == Exc("ValueError", "NotConfigured")

\* ------------------------------------------------------------------ world
World == [strategies |-> strategies, default_name |-> default_name,
          lgbm |-> lgbm, linear |-> linear, dnn |-> dnn, data |-> data,
          prep |-> prep, load_runs |-> load_runs]

Install(w) ==
    /\ strategies' = w.strategies
    /\ default_name' = w.default_name
    /\ lgbm' = w.lgbm
    /\ linear' = w.linear
    /\ dnn' = w.dnn
    /\ data' = w.data
    /\ prep' = w.prep
    /\ load_runs' = w.load_runs

\* what an operation did: the world after it, the exception it raised (NoExc
\* when it returned), the strategy it returned and the names it returned
Result(w, exc, ret, names) == [w |-> w, exc |-> exc, ret |-> ret, names |-> names]

Return(w) == Result(w, NoExc, None, <<>>)

Raise(w, exc) == Result(w, exc, None, <<>>)

\* ------------------------------------------------------------ environment
\* What the loads find on disk, fixed for one run of the process.
\*   demand_config  config.json of the demand model can be opened
\*   folds          model_fold_<i>.txt: missing, a readable booster, or a file
\*                  lgb.Booster raises on
\*   linear_model   linear_regressor.pkl exists
\*   dnn            the first check DNNStrategy.load fails at, or "ok"
\*   datasets       the first step load_price_forecast_datasets fails at, or "ok"
\*   encoders       encoding_dicts.pkl of the demand encoder can be loaded
FoldStates == {"missing", "ok", "corrupt"}

DnnStates == {"ok", "no_keras", "no_json", "no_weights"}

DatasetStates == {"ok", "no_train", "no_stores", "no_features"}

AllFolds(state) == [i \in Folds |-> state]

\* A load stops at the first thing it cannot read, so what lies behind it is
\* never looked at: those environments are listed once, in one form.
Environments ==
    {e \in [demand_config : BOOLEAN, folds : [Folds -> FoldStates],
            linear_model : BOOLEAN, dnn : DnnStates, datasets : DatasetStates,
            encoders : BOOLEAN] :
        ~e.demand_config => e.folds = AllFolds("missing") /\ e.encoders}

\* the environments of the strategies' loads: no load reads the encoders or
\* a table other than the training table, and the tables are read only by a
\* price strategy that found its own files
StrategyEnvironments ==
    {e \in Environments :
        /\ e.encoders
        /\ e.datasets # "no_features"
        /\ (~e.linear_model /\ e.dnn # "ok") => e.datasets = "ok"}

\* ------------------------------------------------------------ DataService
DataInit == [train_df |-> None, stores_df |-> None, features_df |-> None]

\* DataService.load_price_forecast_datasets past its guard: the try block
read_csv_files(w) ==
    IF fs.datasets = "no_train"
    THEN Raise(w, Exc("FileNotFoundError", "train.csv"))
    ELSE IF fs.datasets = "no_stores"
    THEN Raise([w EXCEPT !.data.train_df = "raw"],
               Exc("FileNotFoundError", "stores.csv"))
    ELSE IF fs.datasets = "no_features"
    THEN Raise([w EXCEPT !.data.train_df = "raw", !.data.stores_df = "raw"],
               Exc("FileNotFoundError", "features.csv"))
    ELSE Return([w EXCEPT !.data = [train_df |-> "dated", stores_df |-> "raw",
                                    features_df |-> "dated"]])

\* DataService.load_price_forecast_datasets: "if self._train_df is not None:
\* return", then the try block
load_price_forecast_datasets(w) ==
    IF w.data.train_df # None THEN Return(w) ELSE read_csv_files(w)

\* --------------------------------------------------- PreprocessingService
PrepInit == [demand_config |-> None, demand_encoders |-> None]

\* PreprocessingService._load_demand_config_and_encoders
load_demand_config_and_encoders(w) ==
    IF w.prep.demand_config # None /\ w.prep.demand_encoders # None
    THEN Return(w)
    ELSE IF ~fs.demand_config
    THEN Raise(w, Exc("FileNotFoundError", "config.json"))
    ELSE IF ~fs.encoders
    THEN Raise([w EXCEPT !.prep.demand_config = "config"],
               Exc("FileNotFoundError", "encoding_dicts.pkl"))
    ELSE Return([w EXCEPT !.prep = [demand_config |-> "config",
                                    demand_encoders |-> "encoders"]])

\* PreprocessingService.preprocess_demand_features
preprocess_demand_features(w) == load_demand_config_and_encoders(w)

\* indexing a table after the statement before it: None[...] is a TypeError
Indexed(res, table, what) ==
    IF res.exc # NoExc
    THEN res
    ELSE IF res.w.data[table] = None
    THEN Raise(res.w, Exc("TypeError", what))
    ELSE Return(res.w)

\* a DataService getter: the table is loaded when it is None, then indexed
Getter(w, table, what) ==
    Indexed(IF w.data[table] = None
            THEN load_price_forecast_datasets(w) ELSE Return(w), table, what)

\* DataService.get_store_info
get_store_info(w) == Getter(w, "stores_df", "_stores_df is None")

\* DataService.get_nearest_date_features
get_nearest_date_features(w) == Getter(w, "features_df", "_features_df is None")

\* DataService.get_store_dept_stats
get_store_dept_stats(w) == Getter(w, "train_df", "_train_df is None")

\* the statements of preprocess_price_features after the store is looked up;
\* an exception of the statement before ends the method
nearest_date_features(res) ==
    IF res.exc # NoExc THEN res ELSE get_nearest_date_features(res.w)

store_dept_stats(res) ==
    IF res.exc # NoExc THEN res ELSE get_store_dept_stats(res.w)

\* PreprocessingService._one_hot_encode_price_features
one_hot_encode_price_features(res) ==
    IF res.exc # NoExc THEN res ELSE load_price_forecast_datasets(res.w)

\* PreprocessingService.preprocess_price_features
preprocess_price_features(w) ==
    one_hot_encode_price_features(
        store_dept_stats(nearest_date_features(get_store_info(w))))

\* ------------------------------------------------------------- strategies
LgbmInit == [loaded |-> FALSE, models |-> <<>>, config_dict |-> None]

LinearInit == [loaded |-> FALSE, model |-> None, feature_columns |-> None]

DnnInit == [loaded |-> FALSE, model |-> None, feature_columns |-> None,
            model_from_json |-> None, keras_import_error |-> None]

\* BaseStrategy.is_loaded
is_loaded(w, s) ==
    CASE s = "LightGBMStrategy" -> w.lgbm.loaded
      [] s = "LinearStrategy" -> w.linear.loaded
      [] s = "DNNStrategy" -> w.dnn.loaded

\* BaseStrategy.get_name of the three classes
get_name(s) ==
    CASE s = "LightGBMStrategy" -> "lightgbm"
      [] s = "LinearStrategy" -> "linear"
      [] s = "DNNStrategy" -> "dnn"

\* the load body of s starts: it reads files or imports the runtime
BodyRuns(w, s) == [w EXCEPT !.load_runs[s] = @ + 1]

\* the fold loop of LightGBMStrategy.load from fold i on: the models list
\* after it and whether lgb.Booster raised
RECURSIVE FoldLoop(_, _)
FoldLoop(i, models) ==
    IF i = n_folds
    THEN [models |-> models, raised |-> FALSE]
    ELSE IF fs.folds[i] = "missing"
    THEN FoldLoop(i + 1, models)
    ELSE IF fs.folds[i] = "corrupt"
    THEN [models |-> models, raised |-> TRUE]
    ELSE FoldLoop(i + 1, Append(models, i))

\* a load that accepts an empty model list
LightGBM_load_unchecked(w0) ==
    LET w == BodyRuns(w0, "LightGBMStrategy") IN
    IF ~fs.demand_config
    THEN Raise(w, Exc("FileNotFoundError", "config.json"))
    ELSE LET loop == FoldLoop(0, w.lgbm.models)
             w1 == [w EXCEPT !.lgbm.config_dict = "config",
                             !.lgbm.models = loop.models]
         IN IF loop.raised
            THEN Raise(w1, Exc("LightGBMError", "booster"))
            ELSE Return([w1 EXCEPT !.lgbm.loaded = TRUE])

\* LightGBMStrategy.load past its guard
LightGBM_load_body(w0) ==
    LET w == BodyRuns(w0, "LightGBMStrategy") IN
    IF ~fs.demand_config
    THEN Raise(w, Exc("FileNotFoundError", "config.json"))
    ELSE LET loop == FoldLoop(0, w.lgbm.models)
             w1 == [w EXCEPT !.lgbm.config_dict = "config",
                             !.lgbm.models = loop.models]
         IN IF loop.raised
            THEN Raise(w1, Exc("LightGBMError", "booster"))
            ELSE IF loop.models = <<>>
            THEN Raise(w1, Exc("ValueError", "NoModels"))
            ELSE Return([w1 EXCEPT !.lgbm.loaded = TRUE])

\* LinearStrategy.load past its guard
Linear_load_body(w0) ==
    LET w == BodyRuns(w0, "LinearStrategy") IN
    IF ~fs.linear_model
    THEN Raise(w, Exc("FileNotFoundError", "linear_regressor.pkl"))
    ELSE LET w1 == [w EXCEPT !.linear.model = "model"]
             ds == load_price_forecast_datasets(w1)
         IN IF ds.exc # NoExc
            THEN Raise(ds.w, ds.exc)
            ELSE Return([ds.w EXCEPT !.linear.feature_columns = "columns",
                                     !.linear.loaded = TRUE])

\* a load that never imports the runtime
DNN_load_without_runtime(w0) ==
    LET w1 == BodyRuns(w0, "DNNStrategy") IN
    IF fs.dnn = "no_json"
    THEN Raise(w1, Exc("FileNotFoundError", "dnn_regressor.json"))
    ELSE IF fs.dnn = "no_weights"
    THEN Raise(w1, Exc("FileNotFoundError", "dnn_regressor.weights.h5"))
    ELSE LET w2 == [w1 EXCEPT !.dnn.model = "model"]
             ds == load_price_forecast_datasets(w2)
         IN IF ds.exc # NoExc
            THEN Raise(ds.w, ds.exc)
            ELSE Return([ds.w EXCEPT !.dnn.feature_columns = "columns",
                                     !.dnn.loaded = TRUE])

\* DNNStrategy.load past its guard, _ensure_keras_available included
DNN_load_body(w0) ==
    IF w0.dnn.model_from_json = None /\ w0.dnn.keras_import_error # None
    THEN Raise(w0, Exc("RuntimeError", "KerasPreviouslyFailed"))
    ELSE LET w == BodyRuns(w0, "DNNStrategy") IN
    IF w.dnn.model_from_json = None /\ fs.dnn = "no_keras"
    THEN Raise([w EXCEPT !.dnn.keras_import_error = "ImportError"],
               Exc("RuntimeError", "KerasUnavailable"))
    ELSE LET w1 == [w EXCEPT !.dnn.model_from_json = "model_from_json"] IN
    IF fs.dnn = "no_json"
    THEN Raise(w1, Exc("FileNotFoundError", "dnn_regressor.json"))
    ELSE IF fs.dnn = "no_weights"
    THEN Raise(w1, Exc("FileNotFoundError", "dnn_regressor.weights.h5"))
    ELSE LET w2 == [w1 EXCEPT !.dnn.model = "model"]
             ds == load_price_forecast_datasets(w2)
         IN IF ds.exc # NoExc
            THEN Raise(ds.w, ds.exc)
            ELSE Return([ds.w EXCEPT !.dnn.feature_columns = "columns",
                                     !.dnn.loaded = TRUE])

load_body(w, s) ==
    CASE s = "LightGBMStrategy" -> LightGBM_load_body(w)
      [] s = "LinearStrategy" -> Linear_load_body(w)
      [] s = "DNNStrategy" -> DNN_load_body(w)

\* load without its guard
load_unguarded(w, s) == load_body(w, s)

\* load() of the three classes: "if self._loaded: return", then the body
load(w, s) == IF is_loaded(w, s) THEN Return(w) ELSE load_body(w, s)

\* an ensure_loaded that runs the load body on every call
ensure_loaded_always(w, s) == load_body(w, s)

\* BaseStrategy.ensure_loaded
ensure_loaded(w, s) == IF ~is_loaded(w, s) THEN load(w, s) ELSE Return(w)

\* a predict that determines the columns of the linear strategy again
predict_redetermining(w, s) ==
    LET l == ensure_loaded(w, s) IN
    IF l.exc # NoExc THEN l
    ELSE Result([l.w EXCEPT !.linear.feature_columns = "columns again"],
                NoExc, "prediction", <<>>)

\* predict() of the three classes: ensure_loaded, then the model is scored
predict(w, s) ==
    LET l == ensure_loaded(w, s) IN
    IF l.exc # NoExc THEN l ELSE Result(l.w, NoExc, "prediction", <<>>)

\* -------------------------------------------------------- dataset lookups
\* A table is the sequence of its rows in file order. A cell that may be
\* missing (NaN), like an Optional argument that may be None, is Absent or
\* Given(v); a date is the number of its day.
Absent == <<>>

Given(v) == <<v>>

\* numbers that need not be whole are kept as <<numerator, denominator>>
Ratio(n, d) == <<n, d>>

RatEq(a, b) == a[1] * b[2] = b[1] * a[2]

\* what a lookup returned, or the exception it raised
Ok(ret) == [exc |-> NoExc, ret |-> ret]

Fail(exc) == [exc |-> exc, ret |-> None]

\* df[df[column] == value]
Where(df, column, value) ==
    LET Matches(row) == row[column] = value IN SelectSeq(df, Matches)

Abs(x) == IF x < 0 THEN -x ELSE x

RECURSIVE SumSeq(_)
SumSeq(q) == IF q = <<>> THEN 0 ELSE Head(q) + SumSeq(Tail(q))

\* the values of a sequence of numbers in ascending order
RECURSIVE Sorted(_)
Sorted(q) ==
    IF q = <<>> THEN <<>>
    ELSE LET least == CHOOSE i \in 1 .. Len(q) : \A j \in 1 .. Len(q) : q[i] <= q[j]
         IN <<q[least]>> \o
            Sorted([k \in 1 .. Len(q) - 1 |-> IF k < least THEN q[k] ELSE q[k + 1]])

\* Series.median(): missing cells are skipped; the middle value, the mean of
\* the two middle values, or NaN when no cell is left
median(df, column) ==
    LET cells == SelectSeq([i \in 1 .. Len(df) |-> df[i][column]],
                           LAMBDA c : c # Absent)
        values == Sorted([i \in 1 .. Len(cells) |-> cells[i][1]])
        n == Len(values)
    IN IF n = 0 THEN Absent
       ELSE IF n % 2 = 1 THEN Given(Ratio(values[(n + 1) \div 2], 1))
       ELSE Given(Ratio(values[n \div 2] + values[n \div 2 + 1], 2))

\* float(row[c]) if pd.notna(row[c]) else <default>
notna_or(cell, default) == IF cell # Absent THEN cell[1] ELSE default

\* DataService._extract_features. Temperature stands for itself and
\* Fuel_Price, CPI for itself and Unemployment, MarkDown1 for the five
\* markdowns; a value that is None or NaN is Absent.
extract_features(row, features_df) ==
    [Temperature |-> row.Temperature,
     CPI |-> IF row.CPI # Absent THEN Given(Ratio(row.CPI[1], 1))
             ELSE median(features_df, "CPI"),
     MarkDown1 |-> notna_or(row.MarkDown1, 0),
     IsHoliday |-> notna_or(row.IsHoliday, FALSE),
     Date |-> row.Date]

\* the last row at the least distance
idxmin_last(distances) ==
    CHOOSE i \in 1 .. Len(distances) :
        /\ \A j \in 1 .. Len(distances) : distances[i] <= distances[j]
        /\ \A j \in i + 1 .. Len(distances) : distances[j] > distances[i]

\* the index idxmin() yields: the first row at the least distance
idxmin(distances) ==
    CHOOSE i \in 1 .. Len(distances) :
        /\ \A j \in 1 .. Len(distances) : distances[i] <= distances[j]
        /\ \A j \in 1 .. i - 1 : distances[j] > distances[i]

\* the lookup over the rows of every store
nearest_features_any_store(features_df, store_id, date) ==
    LET exact_match == Where(features_df, "Date", date)
        date_diff == [i \in 1 .. Len(features_df) |->
                         Abs(features_df[i].Date - date)]
    IN IF Where(features_df, "Store", store_id) = <<>>
       THEN Fail(Exc("ValueError", "NoFeaturesForStore"))
       ELSE IF exact_match # <<>>
       THEN Ok(extract_features(exact_match[1], features_df))
       ELSE Ok(extract_features(features_df[idxmin(date_diff)], features_df))

\* DataService.get_nearest_date_features on a loaded features table
nearest_features_of(features_df, store_id, date) ==
    LET store_features == Where(features_df, "Store", store_id)
        exact_match == Where(store_features, "Date", date)
        date_diff == [i \in 1 .. Len(store_features) |->
                         Abs(store_features[i].Date - date)]
    IN IF store_features = <<>>
       THEN Fail(Exc("ValueError", "NoFeaturesForStore"))
       ELSE IF exact_match # <<>>
       THEN Ok(extract_features(exact_match[1], features_df))
       ELSE Ok(extract_features(store_features[idxmin(date_diff)], features_df))

\* a lookup that answers an unknown store with the first store's metadata
store_info_or_first(stores_df, store_id) ==
    LET store_info == Where(stores_df, "Store", store_id) IN
    IF store_info = <<>>
    THEN Ok([Store |-> store_id, Type |-> stores_df[1].Type,
             Size |-> stores_df[1].Size])
    ELSE Ok([Store |-> store_id, Type |-> store_info[1].Type,
             Size |-> store_info[1].Size])

\* DataService.get_store_info on a loaded stores table
store_info_of(stores_df, store_id) ==
    LET store_info == Where(stores_df, "Store", store_id) IN
    IF store_info = <<>>
    THEN Fail(Exc("ValueError", "StoreNotFound"))
    ELSE Ok([Store |-> store_id, Type |-> store_info[1].Type,
             Size |-> store_info[1].Size])

\* the square of Series.std(): the sample variance of more than one value
variance(sales) ==
    LET n == Len(sales)
        squares == [i \in 1 .. n |-> sales[i] * sales[i]]
    IN Ratio(n * SumSeq(squares) - SumSeq(sales) * SumSeq(sales), n * (n - 1))

\* statistics over the store's rows of every department
store_stats_any_dept(train_df, store_id, dept_id) ==
    LET filtered == Where(train_df, "Store", store_id)
        sales == Sorted([i \in 1 .. Len(filtered) |-> filtered[i].Weekly_Sales])
        n == Len(sales)
    IN IF filtered = <<>>
       THEN [max |-> 0, min |-> 0, mean |-> Ratio(0, 1), median |-> Ratio(0, 1),
             std |-> Ratio(0, 1)]
       ELSE [max |-> sales[n], min |-> sales[1],
             mean |-> Ratio(SumSeq(sales), n),
             median |-> IF n % 2 = 1 THEN Ratio(sales[(n + 1) \div 2], 1)
                        ELSE Ratio(sales[n \div 2] + sales[n \div 2 + 1], 2),
             std |-> IF n > 1 THEN variance(sales) ELSE Ratio(0, 1)]

\* DataService.get_store_dept_stats on a loaded training table; std is kept
\* as its square
store_dept_stats_of(train_df, store_id, dept_id) ==
    LET filtered == Where(Where(train_df, "Store", store_id), "Dept", dept_id)
        sales == Sorted([i \in 1 .. Len(filtered) |-> filtered[i].Weekly_Sales])
        n == Len(sales)
    IN IF filtered = <<>>
       THEN [max |-> 0, min |-> 0, mean |-> Ratio(0, 1), median |-> Ratio(0, 1),
             std |-> Ratio(0, 1)]
       ELSE [max |-> sales[n], min |-> sales[1],
             mean |-> Ratio(SumSeq(sales), n),
             median |-> IF n % 2 = 1 THEN Ratio(sales[(n + 1) \div 2], 1)
                        ELSE Ratio(sales[n \div 2] + sales[n \div 2 + 1], 2),
             std |-> IF n > 1 THEN variance(sales) ELSE Ratio(0, 1)]

\* ------------------------------------------------------ price assembler
\* the name of a one-hot column: Store_3, Dept_1, Type_A
StoreColumn(i) == "Store_" \o ToString(i)

DeptColumn(i) == "Dept_" \o ToString(i)

TypeColumn(t) == "Type_" \o t

Types == {"A", "B", "C"}

\* the base dataframe of preprocess_price_features: one row, a function from
\* its column names to cells, where a cell is Given(value) or, for None,
\* Absent. Year, Month and Week are parts of Date.
base_record(store_id, dept_id, date, is_holiday, store_info, features, stats) ==
    [Store |-> Given(store_id), Dept |-> Given(dept_id), Date |-> Given(date),
     IsHoliday |-> IF (IF is_holiday = Absent THEN features.IsHoliday
                       ELSE is_holiday[1]) THEN Given(1) ELSE Given(0),
     Type |-> Given(store_info.Type), Size |-> Given(store_info.Size),
     Temperature |-> features.Temperature, CPI |-> features.CPI,
     Total_MarkDown |-> Given(features.MarkDown1),
     max |-> Given(stats.max), min |-> Given(stats.min),
     mean |-> Given(stats.mean), median |-> Given(stats.median),
     std |-> Given(stats.std)]

\* sorted(train_df['Dept'].unique()), as a set
dept_values(train_df) == {train_df[i].Dept : i \in 1 .. Len(train_df)}

\* (df[column] == value).astype(int)
astype_int(condition) == IF condition THEN Given(1) ELSE Given(0)

\* an encoding whose department block is the store block's
one_hot_dept_by_store(df, train_df) ==
    [c \in {StoreColumn(i) : i \in 1 .. n_stores} |->
        astype_int(c = StoreColumn(df.Store[1]))]
    @@ [c \in {DeptColumn(d) : d \in dept_values(train_df)} |->
        astype_int(c = DeptColumn(df.Store[1]))]
    @@ [c \in {TypeColumn(t) : t \in Types} |->
        astype_int(c = TypeColumn(df.Type[1]))]
    @@ df

\* PreprocessingService._one_hot_encode_price_features on a loaded training
\* table: the columns it adds, and the columns of df
one_hot_encode(df, train_df) ==
    [c \in {StoreColumn(i) : i \in 1 .. n_stores} |->
        astype_int(c = StoreColumn(df.Store[1]))]
    @@ [c \in {DeptColumn(d) : d \in dept_values(train_df)} |->
        astype_int(c = DeptColumn(df.Dept[1]))]
    @@ [c \in {TypeColumn(t) : t \in Types} |->
        astype_int(c = TypeColumn(df.Type[1]))]
    @@ df

\* a vector with entries for the present columns only
feature_array_without_fill(feature_columns, features_df) ==
    LET present == SelectSeq(feature_columns,
                             LAMBDA col : col \in DOMAIN features_df)
    IN [i \in 1 .. Len(present) |-> features_df[present[i]]]

\* the loop of LinearStrategy.predict and DNNStrategy.predict that builds
\* the model's input from the assembled row
feature_array(feature_columns, features_df) ==
    [i \in 1 .. Len(feature_columns) |->
        IF feature_columns[i] \in DOMAIN features_df
        THEN features_df[feature_columns[i]]
        ELSE Given(0)]

\* LinearStrategy.predict up to model.predict: np.array(.., dtype=float32)
\* turns a None cell into NaN
Linear_feature_array(feature_columns, features_df) ==
    Ok(feature_array(feature_columns, features_df))

\* DNNStrategy.predict up to model.predict: float() of a None cell raises
DNN_feature_array(feature_columns, features_df) ==
    IF \E i \in 1 .. Len(feature_columns) :
           /\ feature_columns[i] \in DOMAIN features_df
           /\ features_df[feature_columns[i]] = Absent
    THEN Fail(Exc("TypeError", "FloatOfNone"))
    ELSE Ok(feature_array(feature_columns, features_df))

\* --------------------------------------------------------- demand encoder
\* the price fields with an absent total_price taken as 0
price_differences_from_zero(base_price, total_price) ==
    LET total == IF total_price = Absent THEN 0 ELSE total_price[1]
        diff == base_price - total
    IN [total_price |-> total, diff |-> diff,
        relative_diff_base |->
            IF base_price # 0 THEN Ratio(diff, base_price) ELSE Ratio(0, 1),
        relative_diff_total |->
            IF total # 0 THEN Ratio(diff, total) ELSE Ratio(0, 1)]

\* preprocess_demand_features: the missing total_price and the price
\* differences
price_differences(base_price, total_price) ==
    LET total == IF total_price = Absent THEN base_price ELSE total_price[1]
        diff == base_price - total
    IN [total_price |-> total, diff |-> diff,
        relative_diff_base |->
            IF base_price # 0 THEN Ratio(diff, base_price) ELSE Ratio(0, 1),
        relative_diff_total |->
            IF total # 0 THEN Ratio(diff, total) ELSE Ratio(0, 1)]

\* A key of an encoding dict is a number or a string; str(value) is the
\* string that spells the number.
Native(value) == <<"number", value>>

Str(value) == <<"string", value>>

\* the lookup that tries the native key only
encode_native_only(table, global_mean, value) ==
    IF Native(value) \in DOMAIN table THEN table[Native(value)] ELSE global_mean

\* the lookup of _encode_store, _encode_sku and _encode_time_features in a
\* dict (a function on its keys): the key is str(value) if that is a key,
\* else the value itself; the dict's entry if the key is in it, else the
\* global mean
encode_lookup(table, global_mean, value) ==
    LET key == IF Str(value) \in DOMAIN table THEN Str(value) ELSE Native(value)
    IN IF key \in DOMAIN table THEN table[key] ELSE global_mean

\* PreprocessingService._encode_store
encode_store(encoders, store_id) ==
    encode_lookup(encoders.store_encoding_dict, encoders.global_mean, store_id)

\* PreprocessingService._encode_sku
encode_sku(encoders, sku_id) ==
    encode_lookup(encoders.sku_encoding_dict, encoders.global_mean, sku_id)

\* PreprocessingService._encode_time_features: the dict of the encoded
\* features, for the configured names that are features; a feature without an
\* encoding dict keeps its raw value
encode_time_features(encoders, time_feature_names, features) ==
    [name \in {n \in DOMAIN features :
                  \E i \in 1 .. Len(time_feature_names) :
                      time_feature_names[i] = n} |->
        IF name \in DOMAIN encoders.time_encoding_dicts
        THEN encode_lookup(encoders.time_encoding_dicts[name],
                           encoders.global_mean, features[name])
        ELSE features[name]]

\* ---------------------------------------------------------------- scoring
\* np.exp on the whole numbers of the model, to the base 2 in place of e
RECURSIVE Exp(_)
Exp(x) == IF x = 0 THEN 1 ELSE 2 * Exp(x - 1)

\* the scoring loop of LightGBMStrategy.predict: each booster's output is
\* taken back from log1p scale, pred = np.exp(pred_log) - 1.0
back_transformed(outputs) == [i \in 1 .. Len(outputs) |-> Exp(outputs[i]) - 1]

\* LightGBMStrategy.predict after the loop: np.mean(predictions)
ensemble_mean(outputs) == Ratio(SumSeq(back_transformed(outputs)), Len(outputs))

\* ------------------------------------------------------- StrategyRegistry
\* StrategyRegistry.list_all
list_all(w, r) == Result(w, NoExc, None, Keys(w.strategies[r]))

\* StrategyRegistry.register
register(w, r, name, strategy) ==
    Return([w EXCEPT !.strategies[r] = SetItem(@, name, strategy)])

\* get that takes no default: a missing name is always an error
get_without_default(w, r, name) ==
    IF name = None
    THEN Raise(w, NotConfigured)
    ELSE IF ~HasKey(w.strategies[r], name)
    THEN Raise(w, NotFound(list_all(w, r).names))
    ELSE Result(w, NoExc, Lookup(w.strategies[r], name), <<>>)

\* get that hands the strategy out loaded
get_loading(w, r, name) ==
    LET resolved == IF name = None THEN w.default_name[r] ELSE name IN
    IF resolved = None
    THEN Raise(w, NotConfigured)
    ELSE IF ~HasKey(w.strategies[r], resolved)
    THEN Raise(w, NotFound(list_all(w, r).names))
    ELSE LET s == Lookup(w.strategies[r], resolved)
         IN Result(ensure_loaded(w, s).w, NoExc, s, <<>>)

\* StrategyRegistry.get
get(w, r, name) ==
    LET resolved == IF name = None THEN w.default_name[r] ELSE name IN
    IF resolved = None
    THEN Raise(w, NotConfigured)
    ELSE IF ~HasKey(w.strategies[r], resolved)
    THEN Raise(w, NotFound(list_all(w, r).names))
    ELSE Result(w, NoExc, Lookup(w.strategies[r], resolved), <<>>)

\* set_default without the membership test
set_default_unchecked(w, r, name) ==
    Return([w EXCEPT !.default_name[r] = name])

\* set_default that drops the stored default when the name is unknown
set_default_clears(w, r, name) ==
    IF ~HasKey(w.strategies[r], name)
    THEN Raise([w EXCEPT !.default_name[r] = None],
               NotFound(list_all(w, r).names))
    ELSE Return([w EXCEPT !.default_name[r] = name])

\* StrategyRegistry.set_default
set_default(w, r, name) ==
    IF ~HasKey(w.strategies[r], name)
    THEN Raise(w, NotFound(list_all(w, r).names))
    ELSE Return([w EXCEPT !.default_name[r] = name])

\* StrategyRegistry.get_default_name
get_default_name(w, r) == Result(w, NoExc, w.default_name[r], <<>>)

\* the loop of StrategyRegistry.load_all from the i-th value of the dict on;
\* an exception of a load ends it
RECURSIVE LoadAllFrom(_, _, _)
LoadAllFrom(w, r, i) ==
    IF i > Len(w.strategies[r])
    THEN Return(w)
    ELSE LET s == Values(w.strategies[r])[i] IN
         IF is_loaded(w, s)
         THEN LoadAllFrom(w, r, i + 1)
         ELSE LET l == load(w, s) IN
              IF l.exc # NoExc THEN l ELSE LoadAllFrom(l.w, r, i + 1)

\* StrategyRegistry.load_all
load_all(w, r) == LoadAllFrom(w, r, 1)

\* -------------------------------------------------- service and endpoints
\* the registry an endpoint and its service method use
registry_of(domain) ==
    IF domain = "demand" THEN "demand_registry" ELSE "price_registry"

\* strategy_name = request.strategy or "<literal>": an absent or empty field
\* becomes the literal the handler carries
strategy_name(domain, requested) ==
    IF requested = ""
    THEN (IF domain = "demand" THEN "lightgbm" ELSE "linear")
    ELSE requested

preprocess(w, domain) ==
    IF domain = "demand"
    THEN preprocess_demand_features(w)
    ELSE preprocess_price_features(w)

\* what a service method did: Result, with the steps it went through
Outcome(res, steps) ==
    [w |-> res.w, exc |-> res.exc, ret |-> res.ret, steps |-> steps]

\* PredictionService.predict_demand / predict_price: the strategy is fetched,
\* the features are built, the strategy predicts
\* the service after strategy.predict: the result dict, or its exception
Predicted(before, predicted, used) ==
    Outcome([predicted EXCEPT !.ret = used],
            <<"get", "preprocess">>
            \o (IF predicted.w.load_runs = before.load_runs
                THEN <<>> ELSE <<"load">>)
            \o (IF predicted.exc = NoExc THEN <<"score">> ELSE <<>>))

\* the service after the features are built
Preprocessed(features, strategy, used) ==
    IF features.exc # NoExc
    THEN Outcome(features, <<"get", "preprocess">>)
    ELSE Predicted(features.w, predict(features.w, strategy), used)

\* the service after registry.get
Got(got, domain, name) ==
    IF got.exc # NoExc
    THEN Outcome(got, <<"get">>)
    ELSE Preprocessed(preprocess(got.w, domain), got.ret,
                      IF domain = "demand" THEN name ELSE get_name(got.ret))

service_predict(w, domain, name) ==
    Got(get(w, registry_of(domain), name), domain, name)

Reply(w, status, detail, used, steps) ==
    [w |-> w,
     response |-> [status |-> status, detail |-> detail, strategy_used |-> used,
                   steps |-> steps]]

\* a handler that serves an unknown name with the strategy of its literal
reject_falls_back(w, domain, name) ==
    LET out == service_predict(w, domain, strategy_name(domain, "")) IN
    Reply(out.w, IF out.exc = NoExc THEN 200 ELSE 500, out.exc, out.ret,
          out.steps)

\* the handler's own HTTPException(400) for a name list_all() does not hold
reject(w, domain, name) ==
    Reply(w, 400, NotFound(list_all(w, registry_of(domain)).names), None, <<>>)

\* predict_demand / predict_price of the handlers
\* the handler after the service call: the response, 400 for a ValueError,
\* 500 for any other exception
Respond(out) ==
    IF out.exc = NoExc
    THEN Reply(out.w, 200, NoExc, out.ret, out.steps)
    ELSE IF out.exc.type = "ValueError"
    THEN Reply(out.w, 400, out.exc, None, out.steps)
    ELSE Reply(out.w, 500, out.exc, None, out.steps)

\* the handler from its membership test on
Validated(w, domain, name, names) ==
    IF name \notin {names[i] : i \in 1 .. Len(names)}
    THEN reject(w, domain, name)
    ELSE Respond(service_predict(w, domain, name))

predict_endpoint(w, domain, requested) ==
    Validated(w, domain, strategy_name(domain, requested),
              list_all(w, registry_of(domain)).names)

\* ------------------------------------------- a price request on the rows
\* The price path with the rows of the three files: what a lookup finds is
\* computed from the variable tables, which holds the files' rows.

\* the lookups preprocess_price_features has called, and the row if it has
\* built one
Features(lookups, built, row) ==
    [lookups |-> lookups, built |-> built, row |-> row]

NoFeatures == Features(<<>>, FALSE, None)

\* a statement of preprocess_price_features raised, or its last one returned
Looked(res, exc, lookups, row) ==
    [res EXCEPT !.exc = exc, !.ret = Features(lookups, exc = NoExc, row)]

AllLookups ==
    <<"get_store_info", "get_nearest_date_features", "get_store_dept_stats">>

\* preprocess_price_features from the base dataframe on
Assembled(res, req, store_info, features, stats) ==
    IF res.exc # NoExc
    THEN Looked(res, res.exc, AllLookups, None)
    ELSE Looked(res, NoExc, AllLookups,
                one_hot_encode(
                    base_record(req.store_id, req.dept_id, req.date,
                                req.is_holiday, store_info, features, stats),
                    tables.train))

\* preprocess_price_features after get_store_dept_stats was called
StatsLooked(res, req, store_info, features) ==
    IF res.exc # NoExc
    THEN Looked(res, res.exc, AllLookups, None)
    ELSE Assembled(one_hot_encode_price_features(res), req, store_info, features,
                   store_dept_stats_of(tables.train, req.store_id, req.dept_id))

\* preprocess_price_features after get_nearest_date_features was called
FeaturesLooked(res, found, req, store_info) ==
    IF res.exc # NoExc
    THEN Looked(res, res.exc, SubSeq(AllLookups, 1, 2), None)
    ELSE IF found.exc # NoExc
    THEN Looked(res, found.exc, SubSeq(AllLookups, 1, 2), None)
    ELSE StatsLooked(get_store_dept_stats(res.w), req, store_info, found.ret)

\* preprocess_price_features after get_store_info was called
StoreLooked(res, found, req) ==
    IF res.exc # NoExc
    THEN Looked(res, res.exc, SubSeq(AllLookups, 1, 1), None)
    ELSE IF found.exc # NoExc
    THEN Looked(res, found.exc, SubSeq(AllLookups, 1, 1), None)
    ELSE FeaturesLooked(get_nearest_date_features(res.w),
                        nearest_features_of(tables.features, req.store_id,
                                            req.date),
                        req, found.ret)

\* PreprocessingService.preprocess_price_features(store_id, dept_id, date,
\* is_holiday)
preprocess_price_request(w, req) ==
    StoreLooked(get_store_info(w), store_info_of(tables.stores, req.store_id),
                req)

\* the columns LinearStrategy._determine_feature_columns starts from, of the
\* columns the row has; Dept_1 and Dept_9 stand for the eight departments
default_features ==
    <<"mean", "median", "Temperature", "max", "CPI", "min", "std",
      "Total_MarkDown", "IsHoliday", "Size", "Dept_1", "Dept_9">>

\* the list before it is cut or extended to the model's dimensions
Linear_feature_columns ==
    default_features \o [i \in 1 .. n_stores |-> StoreColumn(i)]
        \o <<"Type_A", "Type_B", "Type_C">>

\* sorted(values) of a set of numbers
RECURSIVE SortedSet(_)
SortedSet(values) ==
    IF values = {}
    THEN <<>>
    ELSE LET least == CHOOSE v \in values : \A u \in values : v <= u
         IN <<least>> \o SortedSet(values \ {least})

\* the loop over dept_values that appends the Dept_<d> names the list lacks,
\* until it has n_features names
RECURSIVE add_missing_dept_features(_, _, _)
add_missing_dept_features(feature_columns, dept_vals, n_features) ==
    IF dept_vals = <<>>
    THEN feature_columns
    ELSE IF \E i \in 1 .. Len(feature_columns) :
                feature_columns[i] = DeptColumn(Head(dept_vals))
    THEN add_missing_dept_features(feature_columns, Tail(dept_vals), n_features)
    ELSE IF Len(feature_columns) + 1 >= n_features
    THEN Append(feature_columns, DeptColumn(Head(dept_vals)))
    ELSE add_missing_dept_features(
             Append(feature_columns, DeptColumn(Head(dept_vals))),
             Tail(dept_vals), n_features)

\* LinearStrategy._determine_feature_columns for a model with coef_ of length
\* n_features, the training table loaded
determine_feature_columns(n_features, train_df) ==
    IF Len(Linear_feature_columns) > n_features
    THEN SubSeq(Linear_feature_columns, 1, n_features)
    ELSE IF Len(Linear_feature_columns) < n_features
    THEN add_missing_dept_features(Linear_feature_columns,
                                   SortedSet(dept_values(train_df)), n_features)
    ELSE Linear_feature_columns

\* model.predict(X) of the linear model: scikit-learn rejects NaN
model_predict(X) ==
    IF \E i \in 1 .. Len(X) : X[i] = Absent
    THEN Fail(Exc("ValueError", "InputContainsNaN"))
    ELSE Ok("prediction")

\* LinearStrategy.predict after ensure_loaded
Linear_score(features_df) ==
    model_predict(Linear_feature_array(Linear_feature_columns, features_df).ret)

\* what a price service call did: Outcome, with what its preprocessing did
PriceOutcome(res, exc, steps, features) ==
    [w |-> res.w, exc |-> exc, ret |-> res.ret, steps |-> steps,
     features |-> features]

\* predict_price of the service after strategy.predict
PricePredicted(before, predicted, scored, features, used) ==
    IF predicted.exc # NoExc
    THEN PriceOutcome(predicted, predicted.exc,
                      Predicted(before, predicted, used).steps, features)
    ELSE IF scored.exc # NoExc
    THEN PriceOutcome(predicted, scored.exc,
                      <<"get", "preprocess">>
                      \o (IF predicted.w.load_runs = before.load_runs
                          THEN <<>> ELSE <<"load">>), features)
    ELSE PriceOutcome([predicted EXCEPT !.ret = used], NoExc,
                      Predicted(before, predicted, used).steps, features)

\* predict_price of the service after the features are built
PricePreprocessed(features, strategy) ==
    IF features.exc # NoExc
    THEN PriceOutcome(features, features.exc, <<"get", "preprocess">>,
                      features.ret)
    ELSE PricePredicted(features.w, predict(features.w, strategy),
                        Linear_score(features.ret.row), features.ret,
                        get_name(strategy))

\* predict_price of the service after registry.get
PriceGot(got, req) ==
    IF got.exc # NoExc
    THEN PriceOutcome(got, got.exc, <<"get">>, NoFeatures)
    ELSE PricePreprocessed(preprocess_price_request(got.w, req), got.ret)

\* PredictionService.predict_price
service_predict_price(w, req, name) ==
    PriceGot(get(w, "price_registry", name), req)

\* the response of the price handler, with what the preprocessing did
PriceReply(reply, features) ==
    [w |-> reply.w, response |-> reply.response, features |-> features]

PriceResponded(out) == PriceReply(Respond(out), out.features)

PriceValidated(w, req, name, names) ==
    IF name \notin {names[i] : i \in 1 .. Len(names)}
    THEN PriceReply(reject(w, "price", name), NoFeatures)
    ELSE PriceResponded(service_predict_price(w, req, name))

\* predict_price of handlers/price_handler.py
predict_price_endpoint(w, req, requested) ==
    PriceValidated(w, req, strategy_name("price", requested),
                   list_all(w, "price_registry").names)

\* ------------------------------------------------------------------ calls
\* the record of a completed call; "before" is what the call found: for
\* register the strategy registered under the name until then, for load,
\* ensure_loaded and predict whether the strategy was loaded
Call(op, self, name, strategy, before, res) ==
    [op |-> op, self |-> self, name |-> name, strategy |-> strategy,
     before |-> before, exc |-> res.exc, ret |-> res.ret, names |-> res.names]

NoCall == [op |-> None, self |-> None, name |-> None, strategy |-> None,
           before |-> None, exc |-> NoExc, ret |-> None, names |-> <<>>]

WasLoaded(s) == IF is_loaded(World, s) THEN "loaded" ELSE "unloaded"

WithinRuns(w) == \A s \in Strategies : w.load_runs[s] <= MaxLoadRuns

History == <<first_registered, registered_as>>

Served == <<request, response>>

Running == <<pc, target>>

NoRequest == [domain |-> None, strategy |-> None]

NoResponse == [status |-> 0, detail |-> NoExc, strategy_used |-> None,
               steps |-> <<>>]

\* a call of a function: its name and arguments, and once it is done what it
\* raised and what it returned
Asked(op, args) ==
    [op |-> op, args |-> args, done |-> FALSE, exc |-> NoExc, ret |-> None]

Answered(exc, ret) == [calc EXCEPT !.done = TRUE, !.exc = exc, !.ret = ret]

NoCalc == Asked(None, <<>>)

\* files without rows
NoTables == [train |-> <<>>, stores |-> <<>>, features |-> <<>>]

\* no function is called and no row is read
NoInputs == tables = NoTables /\ calc = NoCalc

Register(r, name, s) ==
    /\ LET res == register(World, r, name, s) IN
       /\ Install(res.w)
       /\ call' = Call("register", r, name, s, registered_as[r][name], res)
    /\ first_registered' =
           IF registered_as[r][name] # None
           THEN first_registered
           ELSE [first_registered EXCEPT ![r] = Append(@, name)]
    /\ registered_as' = [registered_as EXCEPT ![r][name] = s]
    /\ UNCHANGED <<fs, tables, calc, Served, Running>>

Get(r, name) ==
    /\ LET res == get(World, r, name) IN
       /\ Install(res.w)
       /\ call' = Call("get", r, name, None, None, res)
    /\ UNCHANGED <<fs, tables, calc, History, Served, Running>>

ListAll(r) ==
    /\ LET res == list_all(World, r) IN
       /\ Install(res.w)
       /\ call' = Call("list_all", r, None, None, None, res)
    /\ UNCHANGED <<fs, tables, calc, History, Served, Running>>

SetDefault(r, name) ==
    /\ LET res == set_default(World, r, name) IN
       /\ Install(res.w)
       /\ call' = Call("set_default", r, name, None, None, res)
    /\ UNCHANGED <<fs, tables, calc, History, Served, Running>>

LoadAll(r) ==
    /\ LET res == load_all(World, r) IN
       /\ WithinRuns(res.w)
       /\ Install(res.w)
       /\ call' = Call("load_all", r, None, None, None, res)
    /\ UNCHANGED <<fs, tables, calc, History, Served, Running>>

Load(s) ==
    /\ LET res == load(World, s) IN
       /\ WithinRuns(res.w)
       /\ Install(res.w)
       /\ call' = Call("load", None, None, s, WasLoaded(s), res)
    /\ UNCHANGED <<fs, tables, calc, History, Served, Running>>

EnsureLoaded(s) ==
    /\ LET res == ensure_loaded(World, s) IN
       /\ WithinRuns(res.w)
       /\ Install(res.w)
       /\ call' = Call("ensure_loaded", None, None, s, WasLoaded(s), res)
    /\ UNCHANGED <<fs, tables, calc, History, Served, Running>>

Predict(s) ==
    /\ LET res == predict(World, s) IN
       /\ WithinRuns(res.w)
       /\ Install(res.w)
       /\ call' = Call("predict", None, None, s, WasLoaded(s), res)
    /\ UNCHANGED <<fs, tables, calc, History, Served, Running>>

\* a request to one of the two endpoints, handled to its response: the
\* handlers are coroutines that never await, so the event loop runs each to
\* its end before the next
Request(domain, requested) ==
    /\ LET out == predict_endpoint(World, domain, requested) IN
       /\ WithinRuns(out.w)
       /\ Install(out.w)
       /\ request' = [domain |-> domain, strategy |-> requested]
       /\ response' = out.response
    /\ UNCHANGED <<fs, tables, calc, History, call, Running>>

\* predict() called from several threads; a thread moves between the reads and
\* writes of _loaded, and the body of load() is taken as one step
StartPredict(t, s) ==
    /\ pc[t] = "idle"
    /\ pc' = [pc EXCEPT ![t] = "ensure_loaded"]
    /\ target' = [target EXCEPT ![t] = s]
    /\ UNCHANGED <<strategies, default_name, lgbm, linear, dnn, data, prep,
                   load_runs, fs, tables, calc, History, call, Served>>

\* ensure_loaded: if not self._loaded
CheckLoaded(t) ==
    /\ pc[t] = "ensure_loaded"
    /\ pc' = [pc EXCEPT ![t] = IF is_loaded(World, target[t])
                               THEN "score" ELSE "load"]
    /\ UNCHANGED <<strategies, default_name, lgbm, linear, dnn, data, prep,
                   load_runs, fs, tables, calc, History, call, Served, target>>

\* load: if self._loaded: return
EnterLoad(t) ==
    /\ pc[t] = "load"
    /\ pc' = [pc EXCEPT ![t] = IF is_loaded(World, target[t])
                               THEN "score" ELSE "body"]
    /\ UNCHANGED <<strategies, default_name, lgbm, linear, dnn, data, prep,
                   load_runs, fs, tables, calc, History, call, Served, target>>

\* the rest of load, to self._loaded = True or to the exception it raises
RunBody(t) ==
    /\ pc[t] = "body"
    /\ LET res == load_body(World, target[t]) IN
       /\ WithinRuns(res.w)
       /\ Install(res.w)
       /\ pc' = [pc EXCEPT ![t] = IF res.exc = NoExc THEN "score" ELSE "idle"]
       /\ target' = [target EXCEPT ![t] = IF res.exc = NoExc THEN @ ELSE None]
    /\ UNCHANGED <<fs, tables, calc, History, call, Served>>

\* the model is scored and predict returns
Score(t) ==
    /\ pc[t] = "score"
    /\ pc' = [pc EXCEPT ![t] = "idle"]
    /\ target' = [target EXCEPT ![t] = None]
    /\ UNCHANGED <<strategies, default_name, lgbm, linear, dnn, data, prep,
                   load_runs, fs, tables, calc, History, call, Served>>

\* load_price_forecast_datasets called from several threads, by a getter of
\* a request or by the load of a price strategy; a thread moves between the
\* test of _train_df and the try block, which is taken as one step
StartDatasets(t) ==
    /\ pc[t] = "idle"
    /\ pc' = [pc EXCEPT ![t] = "datasets"]
    /\ UNCHANGED <<strategies, default_name, lgbm, linear, dnn, data, prep,
                   load_runs, fs, tables, calc, History, call, Served, target>>

\* if self._train_df is not None: return
CheckCached(t) ==
    /\ pc[t] = "datasets"
    /\ pc' = [pc EXCEPT ![t] = IF data.train_df # None
                               THEN "idle" ELSE "read_csv"]
    /\ UNCHANGED <<strategies, default_name, lgbm, linear, dnn, data, prep,
                   load_runs, fs, tables, calc, History, call, Served, target>>

\* the try block: the three files are read and the dates converted
ReadCsv(t) ==
    /\ pc[t] = "read_csv"
    /\ LET res == read_csv_files(World) IN
       /\ Install(res.w)
       /\ call' = Call("read_csv", None, None, None,
                       IF data.train_df = None THEN "absent" ELSE "cached", res)
    /\ pc' = [pc EXCEPT ![t] = "idle"]
    /\ UNCHANGED <<fs, tables, calc, History, Served, target>>

\* all but calc: the objects, the environment and the histories
Process == <<strategies, default_name, lgbm, linear, dnn, data, prep, fs,
             load_runs, History, call, Served, Running, tables>>

\* the function that is asked for is applied to its arguments
Asks(op) == calc.op = op /\ ~calc.done

\* the boosters of a loaded tree ensemble score one feature vector
ScoreEnsemble ==
    /\ Asks("ensemble_mean")
    /\ calc' = Answered(NoExc, ensemble_mean(calc.args[1]))
    /\ UNCHANGED Process

EncodeStore ==
    /\ Asks("encode_store")
    /\ calc' = Answered(NoExc, encode_store(calc.args[1], calc.args[2]))
    /\ UNCHANGED Process

EncodeSku ==
    /\ Asks("encode_sku")
    /\ calc' = Answered(NoExc, encode_sku(calc.args[1], calc.args[2]))
    /\ UNCHANGED Process

EncodeTimeFeatures ==
    /\ Asks("encode_time_features")
    /\ calc' = Answered(NoExc, encode_time_features(calc.args[1], calc.args[2],
                                                    calc.args[3]))
    /\ UNCHANGED Process

PriceDifferences ==
    /\ Asks("price_differences")
    /\ calc' = Answered(NoExc, price_differences(calc.args[1], calc.args[2]))
    /\ UNCHANGED Process

NearestDateFeatures ==
    /\ Asks("nearest_features_of")
    /\ LET res == nearest_features_of(calc.args[1], calc.args[2], calc.args[3])
       IN calc' = Answered(res.exc, res.ret)
    /\ UNCHANGED Process

\* a request to the price endpoint with its fields, handled to its response
\* over the rows of the files
PriceRequest(req, requested) ==
    /\ LET out == predict_price_endpoint(World, req, requested) IN
       /\ WithinRuns(out.w)
       /\ Install(out.w)
       /\ request' = [domain |-> "price", strategy |-> requested,
                      fields |-> req]
       /\ response' = out.response
       /\ calc' = [op |-> "preprocess_price_features", args |-> <<req>>,
                   done |-> out.features.lookups # <<>>,
                   exc |-> IF out.features.lookups # <<>> /\ ~out.features.built
                           THEN out.response.detail ELSE NoExc,
                   ret |-> out.features]
    /\ UNCHANGED <<fs, tables, History, call, Running>>

StoreDeptStats ==
    /\ Asks("store_dept_stats_of")
    /\ calc' = Answered(NoExc, store_dept_stats_of(calc.args[1], calc.args[2],
                                                   calc.args[3]))
    /\ UNCHANGED Process

OneHotEncode ==
    /\ Asks("one_hot_encode")
    /\ calc' = Answered(NoExc, one_hot_encode(calc.args[1], calc.args[2]))
    /\ UNCHANGED Process

LinearFeatureArray ==
    /\ Asks("Linear_feature_array")
    /\ LET res == Linear_feature_array(calc.args[1], calc.args[2])
       IN calc' = Answered(res.exc, res.ret)
    /\ UNCHANGED Process

DetermineFeatureColumns ==
    /\ Asks("determine_feature_columns")
    /\ calc' = Answered(NoExc, determine_feature_columns(calc.args[1],
                                                         calc.args[2]))
    /\ UNCHANGED Process

DNNFeatureArray ==
    /\ Asks("DNN_feature_array")
    /\ LET res == DNN_feature_array(calc.args[1], calc.args[2])
       IN calc' = Answered(res.exc, res.ret)
    /\ UNCHANGED Process

\* --------------------------------------------------------- specifications
\* the objects as constructed: fresh registries, unloaded strategies, no tables
Fresh ==
    [strategies |-> [r \in Registries |-> <<>>],
     default_name |-> [r \in Registries |-> None],
     lgbm |-> LgbmInit, linear |-> LinearInit, dnn |-> DnnInit,
     data |-> DataInit, prep |-> PrepInit,
     load_runs |-> [s \in Strategies |-> 0]]

\* strategies/demand/registry.py and strategies/price/registry.py, executed
\* when the modules are imported
Imported ==
    LET d1 == register(Fresh, "demand_registry", "lightgbm", "LightGBMStrategy").w
        d2 == set_default(d1, "demand_registry", "lightgbm").w
        p1 == register(d2, "price_registry", "linear", "LinearStrategy").w
    IN set_default(p1, "price_registry", "linear").w

StartsAs(w) ==
    /\ strategies = w.strategies
    /\ default_name = w.default_name
    /\ lgbm = w.lgbm
    /\ linear = w.linear
    /\ dnn = w.dnn
    /\ data = w.data
    /\ prep = w.prep
    /\ load_runs = w.load_runs
    /\ first_registered = [r \in Registries |-> Keys(w.strategies[r])]
    /\ registered_as =
           [r \in Registries |->
               [n \in Names |-> IF HasKey(w.strategies[r], n)
                                THEN Lookup(w.strategies[r], n) ELSE None]]
    /\ call = NoCall
    /\ request = NoRequest
    /\ response = NoResponse
    /\ pc = [t \in Threads |-> "idle"]
    /\ target = [t \in Threads |-> None]

\* The strategy objects in the process after import: any sequence of load,
\* ensure_loaded and predict calls on them and of load_all calls on the two
\* registries, one call at a time.
Init == StartsAs(Imported) /\ fs \in StrategyEnvironments /\ NoInputs

Next ==
    \/ \E s \in Strategies : Load(s)
    \/ \E s \in Strategies : EnsureLoaded(s)
    \/ \E s \in Strategies : Predict(s)
    \/ \E r \in Registries : LoadAll(r)

Spec == Init /\ [][Next]_vars

\* The StrategyRegistry class: any sequence of register, get, list_all,
\* set_default and load_all calls on a fresh registry, with every artifact on
\* disk or none. Registries share no state but the strategy objects, so the
\* calls are made on one of them.
RegistryEnvironments ==
    {e \in StrategyEnvironments :
        \/ /\ e.demand_config /\ e.linear_model /\ e.dnn = "ok"
           /\ e.datasets = "ok" /\ e.folds = AllFolds("ok")
        \/ /\ ~e.demand_config /\ ~e.linear_model /\ e.dnn = "no_keras"}

Called == {"demand_registry"}

InitRegistry ==
    StartsAs(Fresh) /\ fs \in RegistryEnvironments /\ NoInputs

NextRegistry ==
    \/ \E r \in Called, name \in Names, s \in Strategies : Register(r, name, s)
    \/ \E r \in Called, name \in Names \cup {None} : Get(r, name)
    \/ \E r \in Called : ListAll(r)
    \/ \E r \in Called, name \in Names : SetDefault(r, name)
    \/ \E r \in Called : LoadAll(r)

SpecRegistry == InitRegistry /\ [][NextRegistry]_vars

\* an endpoint never reaches DNNStrategy, which no registry holds
AppEnvironments == {e \in Environments : e.dnn = "ok"}

InitApp == StartsAs(Imported) /\ fs \in AppEnvironments /\ NoInputs

NextApp == \E domain \in Domains, requested \in RequestNames :
               Request(domain, requested)

SpecApp == InitApp /\ [][NextApp]_vars

InitThreads ==
    StartsAs(Imported) /\ fs \in RegistryEnvironments /\ NoInputs

NextThreads ==
    \/ \E t \in Threads, s \in Strategies : StartPredict(t, s)
    \/ \E t \in Threads : CheckLoaded(t)
    \/ \E t \in Threads : EnterLoad(t)
    \/ \E t \in Threads : RunBody(t)
    \/ \E t \in Threads : Score(t)

SpecThreads == InitThreads /\ [][NextThreads]_vars

\* threads that predict with a strategy or look a table up, with the model
\* files readable and the dataset files in any state
DatasetEnvironments ==
    {e \in Environments :
        /\ e.demand_config /\ e.encoders /\ e.folds = AllFolds("ok")
        /\ e.linear_model /\ e.dnn = "ok"}

InitDatasets == StartsAs(Imported) /\ fs \in DatasetEnvironments /\ NoInputs

NextDatasets ==
    \/ \E t \in Threads, s \in {"LinearStrategy", "DNNStrategy"} :
           StartPredict(t, s)
    \/ \E t \in Threads : CheckLoaded(t)
    \/ \E t \in Threads : EnterLoad(t)
    \/ \E t \in Threads : RunBody(t)
    \/ \E t \in Threads : Score(t)
    \/ \E t \in Threads : StartDatasets(t)
    \/ \E t \in Threads : CheckCached(t)
    \/ \E t \in Threads : ReadCsv(t)

SpecDatasets == InitDatasets /\ [][NextDatasets]_vars

\* every artifact is on disk and readable
Available ==
    [demand_config |-> TRUE, folds |-> AllFolds("ok"), linear_model |-> TRUE,
     dnn |-> "ok", datasets |-> "ok", encoders |-> TRUE]

\* the outputs of one to n_folds boosters for one feature vector
EnsembleOutputs ==
    UNION {[1 .. n -> 0 .. MaxOutput] : n \in 1 .. n_folds}

Ids == 1 .. MaxId

\* the encoded values an encoding dict holds, and the global means
TableValues == {10, 20}

GlobalMeans == {5, 6}

\* the encoding dicts: some of the ids as numbers, some as strings
EncodingDicts ==
    UNION {[keys -> TableValues] :
              keys \in SUBSET ({Native(v) : v \in Ids} \cup {Str(v) : v \in Ids})}

\* encoding_dicts.pkl with one non-empty part: the dict of the stores, of the
\* SKUs, or of the time feature "month" (or no dict for it)
Empty == [k \in {} |-> 0]

EncodersOf(part, table, global_mean) ==
    [store_encoding_dict |-> (IF part = "store" THEN table ELSE Empty),
     sku_encoding_dict |-> (IF part = "sku" THEN table ELSE Empty),
     time_encoding_dicts |-> (IF part = "month" THEN [n \in {"month"} |-> table]
                              ELSE Empty),
     global_mean |-> global_mean]

\* the time_features list of config.json
TimeFeatureNames == {<<"month">>, <<"month", "weekday">>}

\* The functions the requests are computed with, each called on any of its
\* arguments: the scoring of the ensemble, the encoders, the lookups.
EnsembleCalls == {Asked("ensemble_mean", <<outputs>>) : outputs \in EnsembleOutputs}

EncoderCalls ==
    {Asked(op, <<EncodersOf(part, table, g), id>>) :
        <<op, part>> \in {<<"encode_store", "store">>, <<"encode_sku", "sku">>},
        table \in EncodingDicts, g \in GlobalMeans, id \in Ids}
    \cup
    {Asked("encode_time_features",
           <<EncodersOf(part, table, g), names, [n \in {"month"} |-> value]>>) :
        part \in {"month", "none"}, table \in EncodingDicts, g \in GlobalMeans,
        names \in TimeFeatureNames, value \in Ids}

Prices == -1 .. MaxPrice

PriceCalls ==
    {Asked("price_differences", <<base_price, total_price>>) :
        base_price \in Prices,
        total_price \in {Absent} \cup {Given(p) : p \in Prices}}

\* the stores that have rows, and the stores and days of a request
StoreIds == {1, 2}

Dates == 1 .. MaxDate

\* a features row with every cell given; its values are its place in the file
FeatureRow(i, store, date) ==
    [Store |-> store, Date |-> date, Temperature |-> Given(i), CPI |-> Given(i),
     MarkDown1 |-> Given(i), IsHoliday |-> Given(FALSE)]

\* the features tables of up to MaxRows rows of any store and day
FeatureTables ==
    UNION {{[i \in 1 .. n |-> FeatureRow(i, at[i][1], at[i][2])] :
              at \in [1 .. n -> StoreIds \X Dates]} : n \in 0 .. MaxRows}

\* features tables of two rows of store 1 with cells missing in the second
GapTables ==
    {<<FeatureRow(4, 1, 1),
       [Store |-> 1, Date |-> 2, Temperature |-> t, CPI |-> c, MarkDown1 |-> m,
        IsHoliday |-> h]>> :
        t \in {Absent, Given(7)}, c \in {Absent, Given(7)},
        m \in {Absent, Given(7)}, h \in {Absent, Given(TRUE)}}

FeatureCalls ==
    {Asked("nearest_features_of", <<features_df, store_id, date>>) :
        features_df \in FeatureTables \cup GapTables,
        store_id \in StoreIds, date \in Dates}

\* the departments and weekly sales of training rows, and the departments of
\* a request
TrainDepts == {1, 2}

Sales == {1, 3}

Depts == {1, 2, 3}

TrainRow(store, dept, sales) ==
    [Store |-> store, Dept |-> dept, Weekly_Sales |-> sales]

\* rows of store 1 in both departments and both sales, and a row of store 2
TrainRows ==
    {TrainRow(1, dept, sales) : dept \in TrainDepts, sales \in Sales}
        \cup {TrainRow(2, 1, 3)}

\* the training tables of up to MaxRows rows
TrainTables == UNION {[1 .. n -> TrainRows] : n \in 0 .. MaxRows}

StatsCalls ==
    {Asked("store_dept_stats_of", <<train_df, store_id, dept_id>>) :
        train_df \in TrainTables, store_id \in StoreIds, dept_id \in Depts}

\* a features record as get_nearest_date_features returns it
ExampleFeatures(temperature) ==
    [Temperature |-> temperature, CPI |-> Given(Ratio(2, 1)), MarkDown1 |-> 0,
     IsHoliday |-> FALSE, Date |-> 1]

\* the base row of a request on day 1 for a pair without history
ExampleRecord(store_id, dept_id, type, temperature) ==
    base_record(store_id, dept_id, 1, Absent, [Type |-> type, Size |-> 5],
                ExampleFeatures(temperature),
                store_dept_stats_of(<<>>, store_id, dept_id))

\* the base rows the encoding is applied to: also a store beyond n_stores,
\* a department not in the training table and a type that is not A, B or C
OneHotCalls ==
    {Asked("one_hot_encode",
           <<ExampleRecord(store_id, dept_id, type, Given(7)), train_df>>) :
        store_id \in 1 .. n_stores + 1, dept_id \in Depts,
        type \in Types \cup {"D"},
        train_df \in {t \in TrainTables : Len(t) <= 2}}

\* expected columns: in the row, None in some rows, and not in the row
ExpectedColumns == {"Size", "Temperature", "Store_1", "Dept_9"}

ColumnLists == UNION {[1 .. n -> ExpectedColumns] : n \in 0 .. MaxRows}

AssembledRecords ==
    {one_hot_encode(ExampleRecord(1, 1, "A", temperature),
                    <<TrainRow(1, 1, 1), TrainRow(1, 2, 1)>>) :
        temperature \in {Absent, Given(7)}}

FeatureArrayCalls ==
    {Asked(op, <<feature_columns, features_df>>) :
        op \in {"Linear_feature_array", "DNN_feature_array"},
        feature_columns \in ColumnLists, features_df \in AssembledRecords}

\* the lengths of coef_: up to MaxExtra more than the default, store and type
\* columns together
ParameterCounts == 1 .. Len(Linear_feature_columns) + MaxExtra

ColumnCalls ==
    {Asked("determine_feature_columns", <<n_features, train_df>>) :
        n_features \in ParameterCounts,
        train_df \in {t \in TrainTables : Len(t) <= 2}}

InitFunctions ==
    /\ StartsAs(Fresh) /\ fs = Available /\ tables = NoTables
    /\ calc \in EnsembleCalls \cup EncoderCalls \cup PriceCalls \cup FeatureCalls
                \cup StatsCalls \cup OneHotCalls \cup FeatureArrayCalls
                \cup ColumnCalls

NextFunctions ==
    \/ ScoreEnsemble
    \/ EncodeStore
    \/ EncodeSku
    \/ EncodeTimeFeatures
    \/ PriceDifferences
    \/ NearestDateFeatures
    \/ StoreDeptStats
    \/ OneHotEncode
    \/ LinearFeatureArray
    \/ DNNFeatureArray
    \/ DetermineFeatureColumns

SpecFunctions == InitFunctions /\ [][NextFunctions]_vars

\* the rows of stores.csv, features.csv and train.csv of a process: store 1
\* and in some files store 2 have metadata; store 2 has feature records in
\* one file; one file has a feature record without temperature
StoresTables ==
    {<<[Store |-> 1, Type |-> "A", Size |-> 5]>>,
     <<[Store |-> 1, Type |-> "A", Size |-> 5],
       [Store |-> 2, Type |-> "B", Size |-> 7]>>}

PriceFeatureTables ==
    {<<FeatureRow(1, 1, 1)>>,
     <<FeatureRow(1, 1, 1), FeatureRow(2, 2, 2)>>,
     <<FeatureRow(1, 1, 1),
       [FeatureRow(2, 1, 2) EXCEPT !.Temperature = Absent]>>}

PriceTrainTables ==
    {<<TrainRow(1, 1, 1)>>,
     <<TrainRow(1, 1, 1), TrainRow(1, 1, 3), TrainRow(2, 2, 3)>>}

PriceTables ==
    [train : PriceTrainTables, stores : StoresTables,
     features : PriceFeatureTables]

\* the fields of a price request: also a store without metadata
PriceRequests ==
    [store_id : {1, 2, 3}, dept_id : {1, 2}, date : {1, 2},
     is_holiday : {Absent, Given(TRUE)}]

\* the price endpoint reaches the linear model and the three files
PriceEnvironments ==
    {e \in Environments :
        /\ e.demand_config /\ e.encoders /\ e.folds = AllFolds("ok")
        /\ e.dnn = "ok"}

InitPrice ==
    /\ StartsAs(Imported) /\ fs \in PriceEnvironments
    /\ tables \in PriceTables /\ calc = NoCalc

NextPrice == \E req \in PriceRequests, requested \in {"", "linear", "dnn"} :
                 PriceRequest(req, requested)

SpecPrice == InitPrice /\ [][NextPrice]_vars

\* ----------------------------------------------------------------- claims
\* the names registered on r, by the history of its register calls
Registered(r) == {n \in Names : registered_as[r][n] # None}

Range(q) == {q[i] : i \in 1 .. Len(q)}

Objects == <<lgbm, linear, dnn, data, load_runs>>

\* C1: a completed get(name) on a registry resolved an absent name to the
\* stored default; it raised the not-configured error when the name was absent
\* and no default is stored; it raised the not-found error listing every
\* registered name when the resolved name was never registered; otherwise it
\* returned the strategy of the latest register call with the resolved name.
C1_GetContract ==
    call.op = "get" =>
        LET r == call.self
            resolved == IF call.name = None THEN default_name[r] ELSE call.name
        IN /\ resolved = None => call.exc = NotConfigured
           /\ (resolved # None /\ resolved \notin Registered(r)) =>
                 /\ call.exc.type = "ValueError"
                 /\ call.exc.what = "NotFound"
                 /\ Range(call.exc.available) = Registered(r)
           /\ (resolved # None /\ resolved \in Registered(r)) =>
                 /\ call.exc = NoExc
                 /\ call.ret = registered_as[r][resolved]

\* C1 witness: get() without a name returned the default's strategy on a
\* registry that holds more than one name.
C1_Witness ==
    /\ call.op = "get" /\ call.name = None /\ call.exc = NoExc
    /\ Cardinality(Registered(call.self)) >= 2
    /\ call.ret = registered_as[call.self][default_name[call.self]]

\* the request field names a strategy, and the registry of the domain holds
\* none under that name
NamesUnregistered(domain, requested) ==
    /\ requested # ""
    /\ ~HasKey(strategies[registry_of(domain)], requested)

\* C2: a request to the demand or the price endpoint whose strategy field is a
\* name its registry does not hold is answered with status 400 and the
\* not-found error listing the registered names in order; none of its steps is
\* a preprocessing, a load or a scoring, and the encoder state, the tables, the
\* strategy objects and the count of load runs are as before the request.
C2_UnregisteredNameIsRejected ==
    [][\A domain \in Domains, requested \in RequestNames :
          (Request(domain, requested) /\ NamesUnregistered(domain, requested)) =>
              /\ response'.status = 400
              /\ response'.detail =
                     NotFound(Keys(strategies[registry_of(domain)]))
              /\ Range(response'.steps) \cap {"preprocess", "load", "score"} = {}
              /\ UNCHANGED <<Objects, prep>>]_vars

\* C2 witness: the price endpoint answered 400 to a request for "dnn", which
\* its registry does not hold, after the demand strategy had been loaded by an
\* earlier request.
C2_Witness ==
    /\ request = [domain |-> "price", strategy |-> "dnn"]
    /\ response.status = 400
    /\ response.detail = NotFound(<<"linear">>)
    /\ is_loaded(World, "LightGBMStrategy")

\* C3: in every reachable state the default name of a registry is unset or a
\* key of its strategy map.
C3_DefaultIsRegistered ==
    \A r \in Registries :
        default_name[r] = None \/ HasKey(strategies[r], default_name[r])

\* C3 witness: a set_default call has failed on a registry that has a default.
C3_Witness ==
    /\ call.op = "set_default" /\ call.exc # NoExc
    /\ default_name[call.self] # None

\* C4: a set_default(name) step with an unregistered name raises the not-found
\* error and changes neither the default nor the map; with a registered name
\* it stores the name as the default and changes nothing else.
C4_SetDefaultContract ==
    [][call'.op = "set_default" =>
          LET r == call'.self
              n == call'.name
          IN /\ strategies' = strategies
             /\ Objects' = Objects
             /\ IF n \in Registered(r)
                THEN /\ call'.exc = NoExc
                     /\ default_name' = [default_name EXCEPT ![r] = n]
                ELSE /\ call'.exc.type = "ValueError"
                     /\ call'.exc.what = "NotFound"
                     /\ default_name' = default_name]_vars

\* C4 witness: set_default failed with not-found while a default is stored.
C4_Witness ==
    /\ call.op = "set_default" /\ call.exc.what = "NotFound"
    /\ default_name[call.self] # None
    /\ call.name # default_name[call.self]

\* C5: a register(n, s) step never raises; after it get(n) returns s, n
\* occurs once in list_all(), every other name is registered exactly when it
\* was and maps to the strategy it had, and the default name is the same, so
\* that get() resolves a default equal to n to s.
C5_RegisterLastWriteWins ==
    [][call'.op = "register" =>
          LET r == call'.self
              n == call'.name
              s == call'.strategy
              after == list_all(World', r).names
          IN /\ call'.exc = NoExc
             /\ get(World', r, n).exc = NoExc
             /\ get(World', r, n).ret = s
             /\ Cardinality({i \in 1 .. Len(after) : after[i] = n}) = 1
             /\ \A m \in Names \ {n} :
                    /\ get(World', r, m).exc = NoExc <=> get(World, r, m).exc = NoExc
                    /\ get(World', r, m).ret = get(World, r, m).ret
             /\ default_name' = default_name
             /\ default_name[r] = n => get(World', r, None).ret = s]_vars

\* C5 witness: a name that is the default was registered again with another
\* strategy.
C5_Witness ==
    /\ call.op = "register"
    /\ call.before \notin {None, call.strategy}
    /\ default_name[call.self] = call.name

\* C6: list_all() returns the registered names, each once, in the order of
\* their first register calls, whatever was registered again since.
C6_ListAllFirstRegistrationOrder ==
    \A r \in Registries :
        /\ list_all(World, r).names = first_registered[r]
        /\ Cardinality(Range(first_registered[r])) = Len(first_registered[r])
        /\ call.op = "list_all" /\ call.self = r => call.names = first_registered[r]

\* C6 witness: the name registered first was registered again with another
\* strategy after two more names had been registered.
C6_Witness ==
    /\ call.op = "register"
    /\ call.before \notin {None, call.strategy}
    /\ Len(first_registered[call.self]) = 3
    /\ first_registered[call.self][1] = call.name

\* C7: a get, list_all, set_default or register step, returning or raising,
\* leaves the loaded flag and the artifacts of every strategy as they were.
C7_RegistryCallsLoadNothing ==
    [][call'.op \in {"get", "list_all", "set_default", "register"} =>
          /\ lgbm' = lgbm
          /\ linear' = linear
          /\ dnn' = dnn
          /\ load_runs' = load_runs]_vars

\* C7 witness: get returned a strategy that is not loaded while another
\* strategy of the registry is loaded.
C7_Witness ==
    /\ call.op = "get" /\ call.exc = NoExc
    /\ ~is_loaded(World, call.ret)
    /\ \E s \in Range(Values(strategies[call.self])) : is_loaded(World, s)

\* C8: whenever threads call predict on a strategy at the same time, a
\* strategy that has become loaded has had the body of its load run once.
C8_LoadBodyAtMostOnce ==
    \A s \in Strategies : is_loaded(World, s) => load_runs[s] <= 1

\* the artifacts a load of s leaves in the strategy object
Artifacts(w, s) ==
    CASE s = "LightGBMStrategy" -> <<w.lgbm.models, w.lgbm.config_dict>>
      [] s = "LinearStrategy" -> <<w.linear.model, w.linear.feature_columns>>
      [] s = "DNNStrategy" -> <<w.dnn.model, w.dnn.feature_columns>>

\* C9: every strategy starts unloaded, and in a run of load, ensure_loaded,
\* predict and load_all calls made one at a time a strategy that is loaded
\* stays loaded and keeps its model list, model object and feature-column list
\* through every further call.
C9_LoadedOnceAndKept ==
    /\ \A s \in Strategies : ~is_loaded(World, s)
    /\ [][\A s \in Strategies :
             is_loaded(World, s) =>
                 /\ is_loaded(World', s)
                 /\ Artifacts(World', s) = Artifacts(World, s)]_vars

\* C9 witness: load was called on the tree-ensemble strategy when it was
\* loaded with a booster of every fold.
C9_Witness ==
    /\ call.op = "load" /\ call.strategy = "LightGBMStrategy"
    /\ call.before = "loaded"
    /\ lgbm.loaded /\ Len(lgbm.models) = n_folds

\* a load of s has run and has not left s loaded: it raised
Failed(s) == load_runs[s] > 0 /\ ~is_loaded(World, s)

\* C10: once a load of a strategy has failed, the strategy stays failed: no
\* later call leaves it loaded, no later call executes the steps of its load
\* again, and every later predict on it raises.
C10_FailedIsTerminal ==
    [][\A s \in Strategies :
          Failed(s) =>
              /\ load_runs'[s] = load_runs[s]
              /\ ~is_loaded(World', s)
              /\ (call'.op = "predict" /\ call'.strategy = s) =>
                     call'.exc # NoExc]_vars

\* no fold file yields a booster: each is missing or unreadable
NoFoldLoads == \A i \in Folds : fs.folds[i] # "ok"

\* what a load raises for an artifact it cannot use
ConfigurationErrors == {"ValueError", "FileNotFoundError", "LightGBMError"}

\* C11: when no fold file yields a booster, the tree-ensemble strategy is
\* never loaded, every load, ensure_loaded or predict call on it raises an
\* error about its artifacts and returns nothing (the ValueError for the
\* empty model list when the config is readable and every fold file is
\* missing), and load_all of its registry raises; and in every environment a
\* predict that returned a value left at least one booster in the model list.
C11_EmptyEnsembleFails ==
    /\ NoFoldLoads =>
          /\ ~lgbm.loaded
          /\ (call.strategy = "LightGBMStrategy"
                 /\ call.op \in {"load", "ensure_loaded", "predict"}) =>
                 /\ call.exc.type \in ConfigurationErrors
                 /\ call.ret = None
                 /\ (fs.demand_config /\ fs.folds = AllFolds("missing")) =>
                        call.exc = Exc("ValueError", "NoModels")
          /\ (call.op = "load_all" /\ call.self = "demand_registry") =>
                 call.exc # NoExc
    /\ (call.op = "predict" /\ call.strategy = "LightGBMStrategy"
           /\ call.exc = NoExc) =>
           /\ lgbm.loaded
           /\ Len(lgbm.models) >= 1

\* C11 witness: with a readable config and every fold file missing, predict
\* was called on the tree-ensemble strategy after a load had failed, and
\* raised the ValueError of the empty model list.
C11_Witness ==
    /\ fs.demand_config /\ fs.folds = AllFolds("missing")
    /\ call.op = "predict" /\ call.strategy = "LightGBMStrategy"
    /\ call.exc = Exc("ValueError", "NoModels")
    /\ load_runs["LightGBMStrategy"] >= 2

\* C12: the prediction of the tree ensemble for the outputs o_1..o_N of its
\* boosters is exp(mean(o_1..o_N)) - 1 (stated for the outputs whose mean is a
\* whole number).
C12_ExpOfMean ==
    (calc.op = "ensemble_mean" /\ calc.done) =>
        LET outputs == calc.args[1]
            total == SumSeq(outputs)
            N == Len(outputs)
        IN total % N = 0 => RatEq(calc.ret, Ratio(Exp(total \div N) - 1, 1))

\* the dict, the global mean, the value and the result of an encoder call on
\* a field that has an encoding dict
Encoded ==
    LET encoders == calc.args[1] IN
    CASE calc.op = "encode_store" ->
             [table |-> encoders.store_encoding_dict, value |-> calc.args[2],
              ret |-> calc.ret]
      [] calc.op = "encode_sku" ->
             [table |-> encoders.sku_encoding_dict, value |-> calc.args[2],
              ret |-> calc.ret]
      [] calc.op = "encode_time_features" ->
             [table |-> encoders.time_encoding_dicts["month"],
              value |-> calc.args[3]["month"], ret |-> calc.ret["month"]]

EncoderCall ==
    /\ calc.done
    /\ \/ calc.op \in {"encode_store", "encode_sku"}
       \/ /\ calc.op = "encode_time_features"
          /\ "month" \in DOMAIN calc.args[1].time_encoding_dicts

\* C13: an encoder call for a store id, a SKU id or the value of a time
\* feature with an encoding dict does not raise and returns a number: the
\* global mean when the value is a key of the dict neither as a number nor as
\* a string, the dict's entry under one of the two keys otherwise.
C13_UnseenKeyIsGlobalMean ==
    EncoderCall =>
        LET e == Encoded
            keys == {Native(e.value), Str(e.value)} \cap DOMAIN e.table
        IN /\ calc.exc = NoExc
           /\ e.ret \in TableValues \cup GlobalMeans
           /\ keys = {} => e.ret = calc.args[1].global_mean
           /\ keys # {} => e.ret \in {e.table[k] : k \in keys}

\* C13 witness: the month encoder was called with a value that its dict,
\* which has keys of both kinds, does not hold, and returned the global mean.
C13_Witness ==
    /\ calc.op = "encode_time_features" /\ EncoderCall
    /\ Encoded.value = 2
    /\ DOMAIN Encoded.table = {Native(1), Str(1)}
    /\ Encoded.ret = calc.args[1].global_mean

\* C14: the price fields of a demand request without total_price are those of
\* the same request with total_price given as base_price, with diff 0 and both
\* relative differences 0; and in every request a relative difference whose
\* denominator price is 0 is 0.
C14_MissingTotalPriceIsBasePrice ==
    (calc.op = "price_differences" /\ calc.done) =>
        LET base_price == calc.args[1]
            total_price == calc.args[2]
            zero == Ratio(0, 1)
        IN /\ calc.exc = NoExc
           /\ total_price = Absent =>
                  /\ calc.ret = price_differences(base_price, Given(base_price))
                  /\ calc.ret.total_price = base_price
                  /\ calc.ret.diff = 0
                  /\ RatEq(calc.ret.relative_diff_base, zero)
                  /\ RatEq(calc.ret.relative_diff_total, zero)
           /\ base_price = 0 => RatEq(calc.ret.relative_diff_base, zero)
           /\ calc.ret.total_price = 0 =>
                  RatEq(calc.ret.relative_diff_total, zero)

\* C14 witness: the price fields were computed for a request with a base
\* price other than 0 and no total_price.
C14_Witness ==
    /\ calc.op = "price_differences" /\ calc.done
    /\ calc.args = <<2, Absent>>
    /\ calc.ret.total_price = 2

\* the rows of store_id in df, by their place in the file
RowsOf(df, store_id) == {i \in 1 .. Len(df) : df[i].Store = store_id}

\* C15: when a row of the requested store has the requested date,
\* get_nearest_date_features returns the values extracted from a row of that
\* store and date, and so a record with the requested date.
C15_ExactDateMatchIsUsed ==
    (calc.op = "nearest_features_of" /\ calc.done) =>
        LET df == calc.args[1]
            exact == {i \in RowsOf(df, calc.args[2]) : df[i].Date = calc.args[3]}
        IN exact # {} =>
               /\ calc.exc = NoExc
               /\ calc.ret.Date = calc.args[3]
               /\ \E i \in exact : calc.ret = extract_features(df[i], df)

\* C15 witness: the lookup returned the second row of the requested store,
\* which has the requested date, from a table whose first row is of the same
\* store on the day before and whose third row is of another store.
C15_Witness ==
    /\ calc.op = "nearest_features_of" /\ calc.done
    /\ calc.args = <<<<FeatureRow(1, 1, 1), FeatureRow(2, 1, 2),
                       FeatureRow(3, 2, 2)>>, 1, 2>>
    /\ calc.ret.Temperature = Given(2)

\* C16: when the requested store has rows but none with the requested date,
\* get_nearest_date_features returns the values extracted from the row of
\* that store whose date is nearest to the requested date, the first such row
\* in file order when several are equally near.
C16_NearestDateOfStoreFirstInOrder ==
    (calc.op = "nearest_features_of" /\ calc.done) =>
        LET df == calc.args[1]
            date == calc.args[3]
            rows == RowsOf(df, calc.args[2])
            nearest == {i \in rows : \A j \in rows :
                           Abs(df[i].Date - date) <= Abs(df[j].Date - date)}
        IN (rows # {} /\ \A i \in rows : df[i].Date # date) =>
               /\ calc.exc = NoExc
               /\ \E i \in nearest :
                      /\ \A j \in nearest : i <= j
                      /\ calc.ret = extract_features(df[i], df)

\* C16 witness: the requested store has a row one day after and, later in
\* the file, a row one day before the requested date, another store has a row
\* on the date, and the row one day after was returned.
C16_Witness ==
    /\ calc.op = "nearest_features_of" /\ calc.done
    /\ calc.args = <<<<FeatureRow(1, 2, 2), FeatureRow(2, 1, 3),
                       FeatureRow(3, 1, 1)>>, 1, 2>>
    /\ calc.ret.Temperature = Given(2)
    /\ calc.ret.Date = 3

\* the statistics of a pair without history
ZeroStats ==
    [max |-> 0, min |-> 0, mean |-> Ratio(0, 1), median |-> Ratio(0, 1),
     std |-> Ratio(0, 1)]

\* the request of this state was handed to preprocess_price_features
Preprocessing == calc.op = "preprocess_price_features" /\ calc.done

\* the store of the request has metadata, feature records, history for the
\* department
HasMetadata(req) == Where(tables.stores, "Store", req.store_id) # <<>>

HasFeatureRecords(req) == Where(tables.features, "Store", req.store_id) # <<>>

HasHistory(req) ==
    Where(Where(tables.train, "Store", req.store_id), "Dept", req.dept_id) # <<>>

\* C17: a price request for a store with metadata and a department for which
\* the training table has no row of that store gets a row whose max, min,
\* mean, median and std are zero; with the files readable and feature records
\* for the store its preprocessing does not raise, and with the linear model
\* readable and a temperature in the feature record the request is answered
\* with status 200.
C17_NoHistoryGivesZeroStatistics ==
    (/\ Preprocessing
     /\ HasMetadata(request.fields)
     /\ ~HasHistory(request.fields)) =>
        /\ calc.ret.built =>
               /\ calc.ret.row.max = Given(ZeroStats.max)
               /\ calc.ret.row.min = Given(ZeroStats.min)
               /\ calc.ret.row.mean = Given(ZeroStats.mean)
               /\ calc.ret.row.median = Given(ZeroStats.median)
               /\ calc.ret.row.std = Given(ZeroStats.std)
        /\ (fs.datasets = "ok" /\ HasFeatureRecords(request.fields)) =>
               /\ calc.ret.built
               /\ calc.ret.lookups = AllLookups
               /\ (fs.linear_model /\ calc.ret.row.Temperature # Absent) =>
                      /\ response.status = 200
                      /\ response.strategy_used = "linear"

\* C17 witness: a request for store 2 and department 1, of which the training
\* table has rows of other pairs only, was answered with status 200 from a
\* row with zero statistics.
C17_Witness ==
    /\ Preprocessing
    /\ request.fields.store_id = 2 /\ request.fields.dept_id = 1
    /\ Len(tables.train) = 3
    /\ calc.ret.built /\ calc.ret.row.max = Given(0)
    /\ calc.ret.row.std = Given(Ratio(0, 1))
    /\ response.status = 200

\* C18: a price request that reaches the preprocessing with the stores table
\* readable and a store without metadata is answered with status 400 and the
\* store-not-found error after the store lookup alone; with the features
\* table readable, a store with metadata and no feature record is answered
\* with status 400 and the no-features error; in neither case is there a
\* scoring step.
C18_UnknownStoreIsClientError ==
    [][(calc'.op = "preprocess_price_features" /\ calc'.done) =>
          LET req == request'.fields IN
          /\ (/\ data.stores_df # None \/ fs.datasets = "ok"
              /\ Where(tables.stores, "Store", req.store_id) = <<>>) =>
                 /\ calc'.ret.lookups = <<"get_store_info">>
                 /\ ~calc'.ret.built
                 /\ response'.status = 400
                 /\ response'.detail = Exc("ValueError", "StoreNotFound")
                 /\ "score" \notin Range(response'.steps)
          /\ (/\ data.features_df # None \/ fs.datasets = "ok"
              /\ Where(tables.stores, "Store", req.store_id) # <<>>
              /\ Where(tables.features, "Store", req.store_id) = <<>>) =>
                 /\ ~calc'.ret.built
                 /\ response'.status = 400
                 /\ response'.detail = Exc("ValueError", "NoFeaturesForStore")
                 /\ "score" \notin Range(response'.steps)]_vars

\* C18 witness: a request for store 3, which has no metadata, was answered
\* with status 400 after the store lookup, with the linear strategy loaded by
\* an earlier request.
C18_Witness ==
    /\ Preprocessing
    /\ request.fields.store_id = 3
    /\ calc.ret.lookups = <<"get_store_info">>
    /\ response.status = 400
    /\ response.detail = Exc("ValueError", "StoreNotFound")
    /\ linear.loaded

\* C19: when the request's store is one of 1 .. n_stores, its department is
\* one of the training table and its store type is A, B or C, each of the
\* blocks Store_*, Dept_* and Type_* of the encoded row has a 1 in the column
\* of the request's value and 0 in every other column of the block.
C19_OneHotBlocksHaveOneOne ==
    (calc.op = "one_hot_encode" /\ calc.done) =>
        LET df == calc.args[1]
            train_df == calc.args[2]
            Block(columns, own) ==
                /\ own \in columns
                /\ \A c \in columns :
                       /\ c \in DOMAIN calc.ret
                       /\ calc.ret[c] = IF c = own THEN Given(1) ELSE Given(0)
        IN (/\ df.Store[1] \in 1 .. n_stores
            /\ df.Dept[1] \in dept_values(train_df)
            /\ df.Type[1] \in Types) =>
               /\ Block({StoreColumn(i) : i \in 1 .. n_stores},
                        StoreColumn(df.Store[1]))
               /\ Block({DeptColumn(d) : d \in dept_values(train_df)},
                        DeptColumn(df.Dept[1]))
               /\ Block({TypeColumn(t) : t \in Types}, TypeColumn(df.Type[1]))
               /\ DOMAIN calc.ret =
                      DOMAIN df \cup {StoreColumn(i) : i \in 1 .. n_stores}
                          \cup {DeptColumn(d) : d \in dept_values(train_df)}
                          \cup {TypeColumn(t) : t \in Types}

\* C19 witness: the row of store 2, department 2, type B was encoded against
\* a training table with departments 1 and 2.
C19_Witness ==
    /\ calc.op = "one_hot_encode" /\ calc.done
    /\ calc.args[1].Store = Given(2) /\ calc.args[1].Dept = Given(2)
    /\ calc.args[1].Type = Given("B")
    /\ dept_values(calc.args[2]) = {1, 2}
    /\ calc.ret["Store_2"] = Given(1) /\ calc.ret["Store_1"] = Given(0)
    /\ calc.ret["Dept_2"] = Given(1) /\ calc.ret["Dept_1"] = Given(0)
    /\ calc.ret["Type_B"] = Given(1) /\ calc.ret["Type_A"] = Given(0)

\* C20: the vector the linear or the neural-network strategy passes to its
\* model has one entry for each name of the expected column list, in the
\* list's order: the row's cell if the row has the column, else 0.
C20_VectorFollowsExpectedColumns ==
    (/\ calc.op \in {"Linear_feature_array", "DNN_feature_array"}
     /\ calc.done /\ calc.exc = NoExc) =>
        LET feature_columns == calc.args[1]
            features_df == calc.args[2]
        IN /\ Len(calc.ret) = Len(feature_columns)
           /\ \A i \in 1 .. Len(feature_columns) :
                  calc.ret[i] =
                      IF feature_columns[i] \in DOMAIN features_df
                      THEN features_df[feature_columns[i]]
                      ELSE Given(0)

\* C20 witness: the neural-network strategy built the vector for the expected
\* columns Dept_9, Size, Store_1, of which the row has the last two.
C20_Witness ==
    /\ calc.op = "DNN_feature_array" /\ calc.done /\ calc.exc = NoExc
    /\ calc.args[1] = <<"Dept_9", "Size", "Store_1">>
    /\ "Dept_9" \notin DOMAIN calc.args[2]
    /\ "Type_A" \in DOMAIN calc.args[2]
    /\ calc.ret = <<Given(0), Given(5), Given(1)>>

\* C21: the record the feature lookup returns has a value for temperature
\* (and fuel price) and for CPI (and unemployment), a missing one being the
\* median of its column over all rows of the features table; a missing
\* markdown is 0 and a missing holiday flag is false.
C21_NoNullInFeatureRecord ==
    (calc.op = "nearest_features_of" /\ calc.done /\ calc.exc = NoExc) =>
        LET features_df == calc.args[1]
            exact == Where(Where(features_df, "Store", calc.args[2]), "Date",
                           calc.args[3])
        IN /\ calc.ret.CPI # Absent
           /\ calc.ret.Temperature # Absent
           /\ exact # <<>> =>
                  /\ exact[1].MarkDown1 = Absent => calc.ret.MarkDown1 = 0
                  /\ exact[1].IsHoliday = Absent => calc.ret.IsHoliday = FALSE
                  /\ exact[1].CPI = Absent =>
                         calc.ret.CPI = median(features_df, "CPI")
                  /\ exact[1].Temperature = Absent =>
                         calc.ret.Temperature = median(features_df, "Temperature")

\* what a demand prediction is computed from besides the request's fields:
\* the registry, the boosters and the encoder tables
DemandState ==
    <<strategies["demand_registry"], default_name["demand_registry"], lgbm, prep>>

\* the tree ensemble and the encoder tables are loaded
DemandLoaded ==
    /\ lgbm.loaded
    /\ prep.demand_config # None /\ prep.demand_encoders # None

\* C22: once the tree ensemble and the encoder tables are loaded, no request
\* of either domain, answered or failed, changes the registry, the boosters
\* or the encoder tables, and the response to a demand request with any
\* strategy field is the same after the request as before it.
C22_DemandRequestsAreRepeatable ==
    [][DemandLoaded =>
          /\ DemandState' = DemandState
          /\ \A requested \in RequestNames :
                 predict_endpoint(World', "demand", requested).response =
                     predict_endpoint(World, "demand", requested).response]_vars

\* C22 witness: a demand request is answered 200 by the loaded ensemble after
\* a price request has failed in the load of the linear model.
C22_Witness ==
    /\ DemandLoaded
    /\ request.domain = "demand" /\ response.status = 200
    /\ response.steps = <<"get", "preprocess", "score">>
    /\ load_runs["LinearStrategy"] > 0 /\ ~linear.loaded

\* a call that loads a strategy when it is not loaded
LoadingCalls == {"load", "ensure_loaded", "predict"}

\* the artifacts of a strategy other than the neural network are readable
Readable(s) ==
    IF s = "LinearStrategy"
    THEN fs.linear_model /\ fs.datasets = "ok"
    ELSE fs.demand_config /\ fs.folds = AllFolds("ok")

\* C23: where the neural-network runtime cannot be imported, every load,
\* ensure_loaded and predict of the neural-network strategy raises the
\* RuntimeError of the missing runtime and leaves the other strategies, the
\* registries, the tables and the encoders as they were; no call on another
\* strategy and no load_all of a registry without it raises that error; and a
\* call on another strategy whose artifacts are readable returns normally,
\* before and after the failure.
C23_RuntimeFailureIsContained ==
    [][/\ (/\ fs.dnn = "no_keras"
           /\ call'.op \in LoadingCalls /\ call'.strategy = "DNNStrategy") =>
              /\ call'.exc.type = "RuntimeError"
              /\ ~dnn'.loaded
              /\ <<strategies, default_name, lgbm, linear, data, prep>>' =
                     <<strategies, default_name, lgbm, linear, data, prep>>
       /\ call'.exc.type = "RuntimeError" =>
              call'.op \in LoadingCalls /\ call'.strategy = "DNNStrategy"
       /\ (/\ call'.op \in LoadingCalls /\ call'.strategy # "DNNStrategy"
           /\ Readable(call'.strategy)) =>
              /\ call'.exc = NoExc
              /\ is_loaded(World', call'.strategy)]_vars

\* C23 witness: the import of the runtime has failed in a load of the
\* neural-network strategy, and a later predict loaded the linear strategy
\* and returned.
C23_Witness ==
    /\ fs.dnn = "no_keras" /\ dnn.keras_import_error # None
    /\ load_runs["DNNStrategy"] > 0
    /\ call.op = "predict" /\ call.strategy = "LinearStrategy"
    /\ call.before = "unloaded" /\ call.exc = NoExc
    /\ linear.loaded

\* C24: when a price request with the strategy field "dnn" is served, the
\* price registry holds the neural-network strategy under that name and the
\* request is not answered with the not-found error.
C24_DnnIsOffered ==
    (request.domain = "price" /\ request.strategy = "dnn") =>
        /\ HasKey(strategies["price_registry"], "dnn")
        /\ Lookup(strategies["price_registry"], "dnn") = "DNNStrategy"
        /\ response.detail # NotFound(Keys(strategies["price_registry"]))

\* the three tables are cached
TablesLoaded ==
    data.train_df # None /\ data.stores_df # None /\ data.features_df # None

\* C25: with threads calling the loader at the same time, the files are read
\* only while no training table is cached, so at most once, and once the
\* three tables are cached no step assigns to any of them.
C25_TablesReadAtMostOnce ==
    [][/\ (\E t \in Threads : pc[t] = "read_csv" /\ pc'[t] = "idle") =>
              data.train_df = None
       /\ TablesLoaded => data' = data]_vars

\* C26: in the steps of a served request a load of the strategy comes before
\* the preprocessing, and a request whose strategy failed to load has no
\* preprocessing step.
C26_LoadedBeforePreprocessing ==
    LET steps == response.steps IN
    /\ \A i, j \in 1 .. Len(steps) :
           (steps[i] = "load" /\ steps[j] = "preprocess") => i < j
    /\ ("load" \in Range(steps) /\ "score" \notin Range(steps)) =>
           "preprocess" \notin Range(steps)

\* C27: the column list determined for a linear model with n parameters has
\* n names, no name twice, and begins with the default ordering or, when n is
\* smaller, its first n names.
C27_ColumnListMatchesParameterCount ==
    (calc.op = "determine_feature_columns" /\ calc.done) =>
        LET n_features == calc.args[1]
            feature_columns == calc.ret
        IN /\ \A i, j \in 1 .. Len(feature_columns) :
                  feature_columns[i] = feature_columns[j] => i = j
           /\ \A i \in 1 .. Len(default_features) :
                  i <= n_features =>
                      /\ i <= Len(feature_columns)
                      /\ feature_columns[i] = default_features[i]
           /\ Len(feature_columns) = n_features

\* the expected column list of a strategy: feature_columns of the price
\* strategies, config_dict["feature_columns"] of the tree ensemble
ExpectedColumnList(w, s) ==
    CASE s = "LightGBMStrategy" -> w.lgbm.config_dict
      [] s = "LinearStrategy" -> w.linear.feature_columns
      [] s = "DNNStrategy" -> w.dnn.feature_columns

\* C28: a step changes the expected column list of a strategy only by
\* running the body of that strategy's load, and no step changes the list of
\* a strategy that is loaded.
C28_ColumnsFixedAtLoad ==
    [][\A s \in Strategies :
          /\ ExpectedColumnList(World', s) # ExpectedColumnList(World, s) =>
                 load_runs'[s] = load_runs[s] + 1
          /\ is_loaded(World, s) =>
                 /\ ExpectedColumnList(World', s) = ExpectedColumnList(World, s)
                 /\ is_loaded(World', s)]_vars

\* C28 witness: predict was called on the loaded linear strategy, after the
\* neural-network strategy had been loaded as well, and the list is the one
\* its load assigned.
C28_Witness ==
    /\ call.op = "predict" /\ call.strategy = "LinearStrategy"
    /\ call.before = "loaded" /\ call.exc = NoExc
    /\ linear.feature_columns = "columns"
    /\ load_runs["LinearStrategy"] = 1
    /\ dnn.loaded /\ dnn.feature_columns = "columns"

\* C29: in every state the three cached tables are all absent or all present
\* with the dates of the training and the features table converted, and no
\* request is answered with the TypeError of indexing an absent table.
C29_TablesAllOrNothing ==
    /\ \/ data = DataInit
       \/ data = [train_df |-> "dated", stores_df |-> "raw",
                  features_df |-> "dated"]
    /\ response.detail.type # "TypeError"

\* C30: in every state the model list of the tree ensemble has at most
\* n_folds boosters and no fold's booster twice.
C30_OneBoosterPerFold ==
    /\ Len(lgbm.models) <= n_folds
    /\ \A i, j \in 1 .. Len(lgbm.models) :
           lgbm.models[i] = lgbm.models[j] => i = j

====
